---- MODULE Spec2Model ----
(***************************************************************************)
(* A model of monitor-stddev.py: the trim/dedup algorithm of the health    *)
(* timeline (trim_data), the load-and-trim step of main and the monitor    *)
(* loop of monitor_website (probe, sample buffers, window statistics,      *)
(* classification, History Store append, timeline trim, publishes, prune). *)
(*                                                                         *)
(* Units: every time and latency is an integer number of centiseconds      *)
(* (0.01 s), so the 59.99 s gap of trim_data is 5999 and the CLI default   *)
(* timeout of 2.0 s is 200.  Means and variances are exact rationals; the  *)
(* source computes them in binary floating point.                          *)
(*                                                                         *)
(* Scale: the source's sizes (4320 timeline entries, a 240-sample window,  *)
(* a 60-sample prune, probe intervals 1..60) are far beyond explicit-state *)
(* checking.  The definitions below keep the source's names and give the   *)
(* sizes the model is checked at; the relations between them that the      *)
(* code relies on are kept (MAX_HISTORY_SIZE = 3 x window, prune < window, *)
(* probe_interval <= prune).                                               *)
(***************************************************************************)
EXTENDS Integers, Sequences, FiniteSets, TLC

\* ---------------------------------------------------------------- sizes
\* src/monitor-stddev.py:92   RESULTS_COUNT_MINUTES = 60 * 24 * 3 (4320)
RESULTS_COUNT_MINUTES == 3
\* src/monitor-stddev.py:93   SAMPLE_SIZE_SECONDS = 240
SAMPLE_SIZE_SECONDS == 4
\* src/monitor-stddev.py:94   UPDATE_INTERVAL_SECONDS = 60
UPDATE_INTERVAL_SECONDS == 3
\* src/monitor-stddev.py:1354 probe_interval is accepted in 1..60
MaxProbeInterval == 3
\* longest list handed to trim_data in the trim specification
MaxLen == 4
\* number of one-minute-spaced late timestamps offered to the trim specification
MaxLate == 2

STATUS_UNHEALTHY == 0
STATUS_HEALTHY == 1
MAX_HISTORY_SIZE == SAMPLE_SIZE_SECONDS * 3

\* datetime gap of trim_data, 59.99 s, in centiseconds
DEDUP_GAP == 5999

\* Python's None, where the other values are non-negative integers
NoneVal == 0 - 1
\* a "timestamp" value datetime.fromisoformat rejects (ValueError)
BadTimestamp == 0 - 2

VARIABLES
    pc,               \* where the program is: "main" (before main's trim), "loop",
                      \* "stats", "stats_done" (the statistics of a window on their own),
                      \* "stopped" (an exception has left monitor_website)
    loaded,           \* the history as load_historical_data returned it
    historical_data,  \* storage.historical_data: list of {timestamp, healthy}
    trim_in,          \* argument of the most recent trim_data call
    trim_site,        \* the most recent trim_data call: "none", "main", "again", "tick"
    probe_interval,   \* args.probe_interval
    cfg,              \* request_timeout, the three thresholds and use_session of
                      \* monitor_website, and the History Store in use
    errors,                  \* the four sample buffers of monitor_website
    effective_latencies,
    adjusted_latencies,
    response_status_codes,
    now,              \* the wall clock, time(), in centiseconds
    ticks,            \* iterations of the while loop begun so far
    health_status,    \* the local health_status (unbound, NoneVal, before the first evaluation)
    saved,            \* what the saver's four targets and the history file hold:
                      \* the latest content written
    tick,             \* the other locals of the latest iteration, and its trace
    other,            \* a second run of monitor_website, for comparing two runs
    proc,             \* main: its arguments, what it did before the loop, its exit code
    image,            \* the PNG create_graphical_representation returned last
    credits,          \* monitor-credits.py: the locals of its main loop
    eviction          \* monitor-eviction.py: the locals of its main loop, and the
                      \* trace of its latest poll and of eviction_action

\* the state of the run of monitor_website
run == [probe_interval |-> probe_interval, cfg |-> cfg, errors |-> errors,
        effective_latencies |-> effective_latencies,
        adjusted_latencies |-> adjusted_latencies,
        response_status_codes |-> response_status_codes,
        now |-> now, health_status |-> health_status, saved |-> saved,
        historical_data |-> historical_data, tick |-> tick]

loopvars == <<probe_interval, cfg, errors, effective_latencies, adjusted_latencies,
              response_status_codes, now, ticks, health_status, saved, tick, other>>

\* what the specifications of the monitor loop leave alone
outside == <<proc, image, credits, eviction>>

vars == <<pc, loaded, historical_data, trim_in, trim_site, loopvars, outside>>

\* ---------------------------------------------------------------- helpers
RECURSIVE SumSeq(_)
SumSeq(s) == IF s = <<>> THEN 0 ELSE Head(s) + SumSeq(Tail(s))

RECURSIVE SeqsUpTo(_, _)
\* every sequence over S of length 0..n
SeqsUpTo(S, n) ==
    IF n = 0 THEN {<<>>}
    ELSE LET shorter == SeqsUpTo(S, n - 1)
         IN  shorter \cup {Append(s, x) : s \in {t \in shorter : Len(t) = n - 1}, x \in S}

\* ---------------------------------------------------------------- trim_data
\* datetime.fromisoformat(str(x["timestamp"])) succeeds
ValidTimestamp(entry) == entry.timestamp >= 0

AllValid(data) == \A i \in 1..Len(data) : ValidTimestamp(data[i])

RECURSIVE InsertSorted(_, _)
\* entry goes after every element whose key is <= its own: the sort is stable
InsertSorted(sorted, entry) ==
    IF sorted = <<>> THEN <<entry>>
    ELSE IF Head(sorted).timestamp <= entry.timestamp
         THEN <<Head(sorted)>> \o InsertSorted(Tail(sorted), entry)
         ELSE <<entry>> \o sorted

\* the mutant of SortedByTimestamp: the list is walked in the order given
SortedNot(data) == data

RECURSIVE SortedByTimestamp(_)
\* sorted(data, key=lambda x: datetime.fromisoformat(str(x["timestamp"])))
SortedByTimestamp(data) ==
    IF data = <<>> THEN <<>>
    ELSE InsertSorted(SortedByTimestamp(SubSeq(data, 1, Len(data) - 1)), data[Len(data)])

\* the mutant of KeepEntry: the gap is tested against half the interval
KeepEntryHalfGap(last_timestamp, current_timestamp) ==
    \/ last_timestamp = NoneVal
    \/ current_timestamp - last_timestamp >= DEDUP_GAP \div 2

\* not last_timestamp or (current_timestamp - last_timestamp).total_seconds() >= 59.99
\* (a datetime is always truthy, so "not last_timestamp" is "last_timestamp is None")
KeepEntry(last_timestamp, current_timestamp) ==
    \/ last_timestamp = NoneVal
    \/ current_timestamp - last_timestamp >= DEDUP_GAP

RECURSIVE WalkFrom(_, _, _)
\* the for loop of trim_data over data_sorted[i..]: last_timestamp is assigned on
\* every iteration, whether or not the entry was appended to filtered_data
WalkFrom(data_sorted, i, last_timestamp) ==
    IF i > Len(data_sorted) THEN <<>>
    ELSE LET entry == data_sorted[i]
             current_timestamp == entry.timestamp
         IN  (IF KeepEntry(last_timestamp, current_timestamp) THEN <<entry>> ELSE <<>>)
             \o WalkFrom(data_sorted, i + 1, current_timestamp)

\* the mutant of CapTail: keeps the oldest entries instead of the newest
CapTailHead(filtered_data) ==
    IF Len(filtered_data) > RESULTS_COUNT_MINUTES
    THEN SubSeq(filtered_data, 1, RESULTS_COUNT_MINUTES)
    ELSE filtered_data

\* if len(filtered_data) > RESULTS_COUNT_MINUTES:
\*     filtered_data = filtered_data[-RESULTS_COUNT_MINUTES:]
CapTail(filtered_data) ==
    IF Len(filtered_data) > RESULTS_COUNT_MINUTES
    THEN SubSeq(filtered_data, Len(filtered_data) - RESULTS_COUNT_MINUTES + 1,
                Len(filtered_data))
    ELSE filtered_data

\* trim_data(data): [] for an empty list; data itself when the sort key raises
\* (except Exception: return data); otherwise sort, walk, cap
trim_data(data) ==
    IF data = <<>> THEN <<>>
    ELSE IF ~AllValid(data) THEN data
    ELSE CapTail(WalkFrom(SortedByTimestamp(data), 1, NoneVal))

\* ---------------------------------------------------------------- sample buffers
\* the mutant of Repeat: the value once, whatever the interval
RepeatOnce(value, n) == <<value>>

\* [value] * probe_interval
Repeat(value, n) == [i \in 1..n |-> value]

\* the mutant of DelFront: the slice deletion leaves the caller's list as it was
DelFrontNot(data_list, n) == data_list

\* the mutant of DelFront: the slice deletion removes the oldest entry only
DelFrontOne(data_list, n) == Tail(data_list)

\* del data_list[:n]
DelFront(data_list, n) ==
    IF n >= Len(data_list) THEN <<>> ELSE SubSeq(data_list, n + 1, Len(data_list))

\* cleanup_old_data(data_list, max_size)
cleanup_old_data(data_list, max_size) ==
    IF Len(data_list) > max_size
    THEN DelFront(data_list, Len(data_list) - max_size)
    ELSE data_list

\* data_list[-n:]
LastN(data_list, n) ==
    IF Len(data_list) <= n THEN data_list
    ELSE SubSeq(data_list, Len(data_list) - n + 1, Len(data_list))

\* ---------------------------------------------------------------- window statistics
\* a rational number num/den, den > 0
Rat(num, den) == [num |-> num, den |-> den]

\* r <= k for a rational r and an integer k
RatLeq(r, k) == r.num <= k * r.den

\* s <= k for a standard deviation s held as its square (a rational) and k >= 0
StdLeq(sq, k) == sq.num <= k * k * sq.den

\* [latency for latency in analysis_latencies if latency is not None]
NotNone(xs) == SelectSeq(xs, LAMBDA x : x # NoneVal)

\* statistics.mean(xs) if xs else 0.0
MeanOrZero(xs) == IF xs = <<>> THEN Rat(0, 1) ELSE Rat(SumSeq(xs), Len(xs))

\* the mutant of StdevSqOrZero: the variance formula without the guard on the
\* number of samples (a zero denominator stands for statistics.StatisticsError)
StdevSqUnguarded(xs) ==
    LET n == Len(xs)
        sx == SumSeq(xs)
        sxx == SumSeq([i \in 1..n |-> xs[i] * xs[i]])
    IN  Rat(n * sxx - sx * sx, n * (n - 1))

\* statistics.stdev(xs) if len(xs) > 1 else 0.0, as its square: the sample
\* variance sum((x - mean)^2) / (n - 1) = (n * sum(x^2) - sum(x)^2) / (n * (n - 1))
StdevSqOrZero(xs) ==
    IF Len(xs) > 1
    THEN LET n == Len(xs)
             sx == SumSeq(xs)
             sxx == SumSeq([i \in 1..n |-> xs[i] * xs[i]])
         IN  Rat(n * sxx - sx * sx, n * (n - 1))
    ELSE Rat(0, 1)

\* the mutant of WindowStats: the error rate as a fraction, not a percentage
WindowStatsFraction(analysis) ==
    LET valid_eff_latencies == NotNone(analysis.eff_latencies)
        valid_adj_latencies == NotNone(analysis.adj_latencies)
        num_errors == Len(SelectSeq(analysis.errors, LAMBDA e : e = TRUE))
    IN  [avg_eff |-> MeanOrZero(valid_eff_latencies),
         avg_adj |-> MeanOrZero(valid_adj_latencies),
         std_dev_eff |-> StdevSqOrZero(valid_eff_latencies),
         std_dev_adj |-> StdevSqOrZero(valid_adj_latencies),
         num_errors |-> num_errors,
         error_rate |-> Rat(num_errors, SAMPLE_SIZE_SECONDS)]

\* lines 822-846: the statistics of one evaluation, from the four windows
WindowStats(analysis) ==
    LET valid_eff_latencies == NotNone(analysis.eff_latencies)
        valid_adj_latencies == NotNone(analysis.adj_latencies)
        num_errors == Len(SelectSeq(analysis.errors, LAMBDA e : e = TRUE))
    IN  [avg_eff |-> MeanOrZero(valid_eff_latencies),
         avg_adj |-> MeanOrZero(valid_adj_latencies),
         std_dev_eff |-> StdevSqOrZero(valid_eff_latencies),
         std_dev_adj |-> StdevSqOrZero(valid_adj_latencies),
         num_errors |-> num_errors,
         error_rate |-> Rat(num_errors * 100, SAMPLE_SIZE_SECONDS)]

\* the mutant of WithinThresholds: the comparisons are strict
WithinThresholdsStrict(st, c) ==
    /\ st.avg_eff.num < c.latency_threshold * st.avg_eff.den
    /\ st.avg_adj.num < c.latency_threshold * st.avg_adj.den
    /\ st.error_rate.num < c.error_rate_threshold * st.error_rate.den
    /\ st.std_dev_eff.num < c.deviation_threshold * c.deviation_threshold * st.std_dev_eff.den
    /\ st.std_dev_adj.num < c.deviation_threshold * c.deviation_threshold * st.std_dev_adj.den

\* the mutant of WithinThresholds: the error rate is not looked at
WithinThresholdsNoErrorRate(st, c) ==
    /\ RatLeq(st.avg_eff, c.latency_threshold)
    /\ RatLeq(st.avg_adj, c.latency_threshold)
    /\ StdLeq(st.std_dev_eff, c.deviation_threshold)
    /\ StdLeq(st.std_dev_adj, c.deviation_threshold)

\* the condition of the if at lines 858-864
WithinThresholds(st, c) ==
    /\ RatLeq(st.avg_eff, c.latency_threshold)
    /\ RatLeq(st.avg_adj, c.latency_threshold)
    /\ RatLeq(st.error_rate, c.error_rate_threshold)
    /\ StdLeq(st.std_dev_eff, c.deviation_threshold)
    /\ StdLeq(st.std_dev_adj, c.deviation_threshold)

\* the mutant of Classify: without the reset at line 857 the local keeps the
\* value of the previous evaluation unless the window is within the thresholds
ClassifySticky(health_status_before, st, c) ==
    IF WithinThresholds(st, c) THEN STATUS_HEALTHY
    ELSE IF health_status_before = NoneVal THEN STATUS_UNHEALTHY
    ELSE health_status_before

\* lines 857-865: health_status = STATUS_UNHEALTHY; if (...): health_status = STATUS_HEALTHY
Classify(health_status_before, st, c) ==
    LET reset == STATUS_UNHEALTHY
    IN  IF WithinThresholds(st, c) THEN STATUS_HEALTHY ELSE reset

\* ---------------------------------------------------------------- the loop body
\* the mutant of ProbeSample: a failed probe keeps its measured latency as its
\* adjusted latency
ProbeSampleNoPenalty(inp, request_timeout) ==
    [error |-> inp.raised \/ inp.status_code # 200, effective_latency |-> inp.duration,
     adjusted_latency |-> inp.duration,
     status_code |-> IF inp.raised THEN NoneVal ELSE inp.status_code]

\* lines 745-801: the sample of one probe. inp.raised: session.get raised (the
\* except branch, response_status_code still None); otherwise inp.status_code is
\* response.status_code; inp.duration is probe_end_time - start_time
ProbeSample(inp, request_timeout) ==
    IF inp.raised
    THEN [error |-> TRUE, effective_latency |-> inp.duration,
          adjusted_latency |-> request_timeout, status_code |-> NoneVal]
    ELSE IF inp.status_code = 200
    THEN [error |-> FALSE, effective_latency |-> inp.duration,
          adjusted_latency |-> inp.duration, status_code |-> inp.status_code]
    ELSE [error |-> TRUE, effective_latency |-> inp.duration,
          adjusted_latency |-> request_timeout, status_code |-> inp.status_code]

\* probe_timestamp_dt.strftime("%Y-%m-%dT%H:%M:%SZ") read back by
\* datetime.fromisoformat: the fraction of the second is dropped
FormatTimestamp(t) == (t \div 100) * 100

\* JsonFileStorage.append_metric: self.historical_data.append(record)
append_metric(data, record) == Append(data, record)

\* the mutant of TrimTimeline: line 897 without the call, the timeline is kept as
\* appended
TrimTimelineNot(data) == data

\* line 897: storage.historical_data = trim_data(storage.historical_data)
TrimTimeline(data) == trim_data(data)

\* the mutant of Evaluates: the window test is >= instead of >
EvaluatesAtWindow(cur_sample_size) == cur_sample_size >= SAMPLE_SIZE_SECONDS

\* the mutant of Evaluates: the window test is off by one the other way
EvaluatesLate(cur_sample_size) == cur_sample_size > SAMPLE_SIZE_SECONDS + 1

\* line 820: if cur_sample_size > SAMPLE_SIZE_SECONDS
Evaluates(cur_sample_size) == cur_sample_size > SAMPLE_SIZE_SECONDS

\* the locals of an iteration that did not enter the if at line 820
NoAnalysis == [errors |-> <<>>, eff_latencies |-> <<>>, adj_latencies |-> <<>>,
               status_codes |-> <<>>]

NoStats == WindowStats(NoAnalysis)

NoRecord == [timestamp |-> NoneVal, healthy |-> NoneVal]

\* ---------------------------------------------------------------- exceptions
\* the classes of exception told apart: "Exception" for Exception and its
\* subclasses (OSError, a request error, MemoryError), "KeyboardInterrupt" and
\* "SystemExit" for the two BaseExceptions the program meets; "none" for no exception

\* the mutant of ProbeExcept: the handler around the request catches nothing
ProbeExceptNothing(exc) == FALSE

\* line 786, except Exception around the request: does it catch exc
ProbeExcept(exc) == exc = "Exception"

\* the mutant of SinkExcept: the stores and savers catch nothing
SinkExceptNothing(exc) == FALSE

\* except Exception, the last handler of JsonFileStorage.append_metric,
\* CosmosDBTableStorage.append_metric and of each save_* method: does it catch exc
SinkExcept(exc) == exc = "Exception"

\* the mutant of LoopExcept: the handlers around the loop swallow every exception
LoopExceptSwallow(exc) == "none"

\* lines 988-996, the handlers around the while loop: what leaves monitor_website
\* when exc reaches them. KeyboardInterrupt becomes sys.exit(0), SystemExit and
\* Exception are raised again
LoopExcept(exc) ==
    CASE exc = "KeyboardInterrupt" -> "SystemExit"
      [] exc = "SystemExit" -> "SystemExit"
      [] exc = "Exception" -> "Exception"
      [] OTHER -> "none"

NoInterrupt == [at |-> "none", exc |-> "none"]

\* the operations that write to the History Store or to a saver target
Sinks == {"append_metric", "save_json", "save_html", "save_png", "save_last_error_json"}

\* the mutant of cosmos_append_metric: the record joins the list whatever
\* create_entity did
cosmos_append_metricAlways(data, record, failed) == Append(data, record)

\* CosmosDBTableStorage.append_metric: the record joins the in-memory list only
\* after create_entity succeeded
cosmos_append_metric(data, record, failed) == IF failed THEN data ELSE Append(data, record)

\* storage.append_metric of the store in use; JsonFileStorage appends in memory
\* before it writes the file
StoreAppend(storage, data, record, failed) ==
    IF storage = "cosmos" THEN cosmos_append_metric(data, record, failed)
    ELSE append_metric(data, record)

\* is step among the steps an iteration completed
Did(steps, step) == \E i \in 1..Len(steps) : steps[i] = step

\* the steps from the i-th on that come before the first one in stopping
RECURSIVE StepsUntil(_, _, _)
StepsUntil(full_steps, i, stopping) ==
    IF i > Len(full_steps) \/ full_steps[i] \in stopping THEN <<>>
    ELSE <<full_steps[i]>> \o StepsUntil(full_steps, i + 1, stopping)

\* the mutant of EvaluationBlock: the artifacts are published before the record
\* is appended and the timeline trimmed
EvaluationBlockPublishFirst(unhealthy, prune) ==
    <<"stats", "classify", "render", "save_json", "save_html", "save_png">>
    \o (IF unhealthy THEN <<"save_last_error_json">> ELSE <<>>)
    \o <<"append_metric", "trim_data">>
    \o (IF prune THEN <<"prune">> ELSE <<>>)

\* the mutant of EvaluationBlock: save_last_error_json whatever the health state
EvaluationBlockAlwaysLastError(unhealthy, prune) ==
    <<"stats", "classify", "append_metric", "trim_data", "render",
      "save_json", "save_html", "save_png", "save_last_error_json">>
    \o (IF prune THEN <<"prune">> ELSE <<>>)

\* lines 822-981, the statements inside the if at line 820 in the order of the
\* source: statistics, classification, append_health_metric (line 890), trim_data
\* (897), create_graphical_representation (898), the saves (969-973), the prune
EvaluationBlock(unhealthy, prune) ==
    <<"stats", "classify", "append_metric", "trim_data", "render",
      "save_json", "save_html", "save_png">>
    \o (IF unhealthy THEN <<"save_last_error_json">> ELSE <<>>)
    \o (IF prune THEN <<"prune">> ELSE <<>>)

NoSaved == [json |-> NoRecord, html |-> NoRecord, png |-> <<>>, last_error |-> NoRecord,
            history |-> <<>>]

\* the mutant of Sleeps: the loop sleeps at the end of every iteration
SleepsAlways(sleep_duration) == TRUE

\* line 985, if sleep_duration > 0: does the iteration end with a sleep
Sleeps(sleep_duration) == sleep_duration > 0

\* the mutant of Finally: the session is left open
FinallyNoClose(use_session) == 0

\* lines 997-999, finally: if session: session.close(): the calls of close() made
\* when the try statement around the loop is left; line 729 creates the session
\* only under use_session
Finally(use_session) == IF use_session THEN 1 ELSE 0

\* one iteration of the while loop of monitor_website (lines 737-986) from the
\* state s of the run. Inputs: the probe's outcome, the time the iteration's
\* processing takes, the sinks whose write fails (raises an OSError or the like
\* inside the sink), and an exception raised from outside at one step
\* the mutant of Prunes: the buffers are never pruned
PrunesNever(size) == FALSE

\* line 976: len(effective_latencies) > UPDATE_INTERVAL_SECONDS
Prunes(size) == size > UPDATE_INTERVAL_SECONDS

\* the mutant of DumpedHistory: the file receives the new record only
DumpedHistoryLastOnly(data) == <<data[Len(data)]>>

\* JsonFileStorage.append_metric, lines 240-244: json.dump(self.historical_data, f),
\* the whole list, the record just appended included, replaces the file
DumpedHistory(data) == data

LoopBody(s, inp) ==
    LET start_time == s.now
        next_probe_time == start_time + s.probe_interval * 100
        probe_timestamp_dt == start_time
        sample == ProbeSample(inp, s.cfg.request_timeout)
        \* lines 804-817: extend by [value] * probe_interval, then cleanup_old_data
        sampled ==
            [errors |-> cleanup_old_data(
                 s.errors \o Repeat(sample.error, s.probe_interval), MAX_HISTORY_SIZE),
             eff_latencies |-> cleanup_old_data(
                 s.effective_latencies \o Repeat(sample.effective_latency, s.probe_interval),
                 MAX_HISTORY_SIZE),
             adj_latencies |-> cleanup_old_data(
                 s.adjusted_latencies \o Repeat(sample.adjusted_latency, s.probe_interval),
                 MAX_HISTORY_SIZE),
             status_codes |-> cleanup_old_data(
                 s.response_status_codes \o Repeat(sample.status_code, s.probe_interval),
                 MAX_HISTORY_SIZE)]
        size_after_cleanup == Len(sampled.errors)
        enters == Evaluates(size_after_cleanup)
        \* lines 822-825
        analysis == [errors |-> LastN(sampled.errors, SAMPLE_SIZE_SECONDS),
                     eff_latencies |-> LastN(sampled.eff_latencies, SAMPLE_SIZE_SECONDS),
                     adj_latencies |-> LastN(sampled.adj_latencies, SAMPLE_SIZE_SECONDS),
                     status_codes |-> LastN(sampled.status_codes, SAMPLE_SIZE_SECONDS)]
        stats == WindowStats(analysis)
        new_health_status == Classify(s.health_status, stats, s.cfg)
        \* append_health_metric, lines 1008-1013
        metric_record == [timestamp |-> FormatTimestamp(probe_timestamp_dt),
                          healthy |-> new_health_status]
        appended == StoreAppend(s.cfg.storage, s.historical_data, metric_record,
                                "append_metric" \in inp.failing)
        trimmed == TrimTimeline(appended)
        \* lines 976-981: the prune is decided on len(effective_latencies)
        prune == Prunes(Len(sampled.eff_latencies))
        Pruned(data_list) ==
            IF prune THEN DelFront(data_list, UPDATE_INTERVAL_SECONDS) ELSE data_list
        \* lines 983-986; an iteration that skips the if at line 820 has nothing
        \* to do between the probe and line 983
        current_time == start_time + inp.duration + (IF enters THEN inp.processing ELSE 0)
        sleep_duration == next_probe_time - current_time
        \* the statements of the iteration in the order of the source
        full_steps ==
            <<"probe", "extend", "cleanup">>
            \o (IF enters
                THEN EvaluationBlock(new_health_status = STATUS_UNHEALTHY, prune)
                ELSE <<>>)
            \o (IF Sleeps(sleep_duration) THEN <<"sleep">> ELSE <<>>)
        \* the exception, if any, that leaves the step unhandled
        Escaping(step) ==
            IF step = "probe" /\ inp.raised /\ ~ProbeExcept("Exception") THEN "Exception"
            ELSE IF step \in Sinks \cap inp.failing /\ ~SinkExcept("Exception")
            THEN "Exception"
            ELSE IF inp.interrupt.at = step THEN inp.interrupt.exc
            ELSE "none"
        stopping == {full_steps[i] : i \in {k \in 1..Len(full_steps) :
                                                 Escaping(full_steps[k]) # "none"}}
        steps == StepsUntil(full_steps, 1, stopping)
        raised_at == IF Len(steps) < Len(full_steps) THEN full_steps[Len(steps) + 1]
                     ELSE "none"
        propagated == IF raised_at = "none" THEN "none" ELSE LoopExcept(Escaping(raised_at))
        Wrote(sink) == Did(steps, sink) /\ sink \notin inp.failing
        evaluated == Did(steps, "cleanup") /\ enters
    IN  [errors |-> IF Did(steps, "prune") THEN Pruned(sampled.errors)
                    ELSE IF Did(steps, "cleanup") THEN sampled.errors ELSE s.errors,
         effective_latencies |->
             IF Did(steps, "prune") THEN Pruned(sampled.eff_latencies)
             ELSE IF Did(steps, "cleanup") THEN sampled.eff_latencies
             ELSE s.effective_latencies,
         adjusted_latencies |->
             IF Did(steps, "prune") THEN Pruned(sampled.adj_latencies)
             ELSE IF Did(steps, "cleanup") THEN sampled.adj_latencies
             ELSE s.adjusted_latencies,
         response_status_codes |->
             IF Did(steps, "prune") THEN Pruned(sampled.status_codes)
             ELSE IF Did(steps, "cleanup") THEN sampled.status_codes
             ELSE s.response_status_codes,
         now |-> IF Did(steps, "sleep") THEN next_probe_time ELSE current_time,
         health_status |-> IF Did(steps, "classify") THEN new_health_status
                           ELSE s.health_status,
         historical_data |-> IF Did(steps, "trim_data") THEN trimmed
                             ELSE IF Did(steps, "append_metric") THEN appended
                             ELSE s.historical_data,
         trim_in |-> appended,
         saved |-> [json |-> IF Wrote("save_json") THEN metric_record ELSE s.saved.json,
                    html |-> IF Wrote("save_html") THEN metric_record ELSE s.saved.html,
                    png |-> IF Wrote("save_png") THEN trimmed ELSE s.saved.png,
                    last_error |-> IF Wrote("save_last_error_json") THEN metric_record
                                   ELSE s.saved.last_error,
                    history |-> IF Wrote("append_metric") /\ s.cfg.storage = "json"
                                THEN DumpedHistory(appended) ELSE s.saved.history],
         tick |-> [evaluated |-> evaluated,
                   \* iterations since the latest one that entered the if at
                   \* line 820, and, on an iteration that enters it, since
                   \* the one that entered it before (0: none did)
                   idle |-> IF evaluated THEN 0 ELSE s.tick.idle + 1,
                   evaluated_before |-> s.tick.evaluated_before \/ s.tick.evaluated,
                   gap |-> IF evaluated /\ (s.tick.evaluated_before \/ s.tick.evaluated)
                           THEN s.tick.idle + 1 ELSE 0,
                   \* JsonFileStorage: the records appended to the list since
                   \* the file was last written, and how many they were when
                   \* this iteration called append_metric
                   unwritten |-> IF s.cfg.storage # "json" \/ Wrote("append_metric") THEN 0
                                 ELSE IF Did(steps, "append_metric")
                                 THEN s.tick.unwritten + 1
                                 ELSE s.tick.unwritten,
                   lagging |-> IF s.cfg.storage = "json" /\ Did(steps, "append_metric")
                               THEN s.tick.unwritten ELSE 0,
                   cur_sample_size |-> IF Did(steps, "cleanup") THEN size_after_cleanup
                                       ELSE 0,
                   sample |-> sample,
                   sampled |-> IF Did(steps, "cleanup") THEN sampled ELSE NoAnalysis,
                   analysis |-> IF Did(steps, "stats") THEN analysis ELSE NoAnalysis,
                   stats |-> IF Did(steps, "stats") THEN stats ELSE NoStats,
                   metric_record |-> IF Did(steps, "append_metric") THEN metric_record
                                     ELSE NoRecord,
                   rendered |-> IF Did(steps, "render") THEN trimmed ELSE <<>>,
                   logged |-> {op \in inp.failing : Did(steps, op)}
                              \cup (IF inp.raised /\ Did(steps, "probe")
                                    THEN {"probe"} ELSE {}),
                   probe_raised |-> inp.raised,
                   measured |-> inp.duration,
                   elapsed |-> current_time - start_time,
                   failing |-> inp.failing,
                   raised_at |-> raised_at,
                   propagated |-> propagated,
                   session_closed |-> propagated # "none",
                   session_closes |-> IF propagated # "none"
                                      THEN Finally(s.cfg.use_session) ELSE 0,
                   steps |-> steps]]

\* the locals of monitor_website before the first iteration
NoTick == [evaluated |-> FALSE, idle |-> 0, evaluated_before |-> FALSE, gap |-> 0,
           unwritten |-> 0, lagging |-> 0,
           cur_sample_size |-> 0,
           sample |-> [error |-> FALSE, effective_latency |-> 0,
                       adjusted_latency |-> 0, status_code |-> NoneVal],
           sampled |-> NoAnalysis, analysis |-> NoAnalysis, stats |-> NoStats,
           metric_record |-> NoRecord, rendered |-> <<>>, logged |-> {},
           probe_raised |-> FALSE, measured |-> 0, elapsed |-> 0, failing |-> {},
           raised_at |-> "none", propagated |-> "none", session_closed |-> FALSE,
           session_closes |-> 0,
           steps |-> <<>>]

\* ---------------------------------------------------------------- inputs
\* synthetic per-second samples a behaviour of the model takes (iterations times
\* probe_interval)
MaxSamples == 9

\* the clock when the loop starts: 3 minutes and half a second
StartTime == 18050

\* request_timeout, latency_threshold, error_rate_threshold (percent) and
\* deviation_threshold: the CLI defaults (--timeout 2.0, --latency-threshold 0.5,
\* --error-rate-threshold 5.0, --deviation-threshold 0.3, no --use-session) and a second
\* configuration whose thresholds window statistics of the model meet exactly
Configs ==
    {[request_timeout |-> 200, latency_threshold |-> 50,
      error_rate_threshold |-> 5, deviation_threshold |-> 30, storage |-> "json",
      use_session |-> FALSE],
     [request_timeout |-> 100, latency_threshold |-> 50,
      error_rate_threshold |-> 25, deviation_threshold |-> 45, storage |-> "json",
      use_session |-> FALSE]}

\* what one probe can come to: a fast 200, a slow 200, a fast 500, a raised
\* transport error
Outcomes ==
    {[raised |-> FALSE, status_code |-> 200, duration |-> 10],
     [raised |-> FALSE, status_code |-> 200, duration |-> 50],
     [raised |-> FALSE, status_code |-> 500, duration |-> 10],
     [raised |-> TRUE, status_code |-> NoneVal, duration |-> 90]}

\* the time the rest of an iteration takes: next to nothing, or a minute (an overrun)
ProcTimes == {0, 6000}

Entry(t, h) == [timestamp |-> t, healthy |-> h]

\* the persisted histories the monitor loop is started on: none, a dense
\* unordered one, a full one of one-minute-spaced records, one with an
\* unparsable timestamp
Histories ==
    {<<>>,
     <<Entry(6500, 1), Entry(0, 1), Entry(3000, 0)>>,
     [i \in 1..RESULTS_COUNT_MINUTES |-> Entry(6000 * (i - 1), i % 2)],
     <<Entry(0, 1), Entry(BadTimestamp, 0)>>}

\* ---------------------------------------------------------------- main
\* main, line 1311: storage.historical_data = trim_data(storage.historical_data)
MainTrim ==
    /\ pc = "main"
    /\ trim_in' = historical_data
    /\ historical_data' = trim_data(historical_data)
    /\ trim_site' = "main"
    /\ pc' = "loop"
    /\ UNCHANGED <<loaded, loopvars, outside>>

\* trim_data applied to its own result, as monitor_website's line 897 does on a
\* tick whose History Store append added nothing:
\* storage.historical_data = trim_data(storage.historical_data)
ReTrim ==
    /\ pc = "loop"
    /\ trim_site = "main"
    /\ trim_in' = historical_data
    /\ historical_data' = trim_data(historical_data)
    /\ trim_site' = "again"
    /\ UNCHANGED <<pc, loaded, loopvars, outside>>

\* the run's variables take the result r of an iteration
Advance(r) ==
    /\ errors' = r.errors
    /\ effective_latencies' = r.effective_latencies
    /\ adjusted_latencies' = r.adjusted_latencies
    /\ response_status_codes' = r.response_status_codes
    /\ now' = r.now
    /\ health_status' = r.health_status
    /\ historical_data' = r.historical_data
    /\ saved' = r.saved
    /\ tick' = r.tick
    /\ trim_in' = IF Did(r.tick.steps, "trim_data") THEN r.trim_in ELSE trim_in
    /\ trim_site' = IF Did(r.tick.steps, "trim_data") THEN "tick" ELSE trim_site
    /\ ticks' = ticks + 1
    /\ pc' = IF r.tick.propagated = "none" THEN pc ELSE "stopped"
    /\ UNCHANGED <<loaded, probe_interval, cfg>>

\* the inputs of an iteration in which nothing but the probe can fail
ProbeInput(outcome, processing) ==
    [raised |-> outcome.raised, status_code |-> outcome.status_code,
     duration |-> outcome.duration, processing |-> processing,
     failing |-> {}, interrupt |-> NoInterrupt]

\* one iteration of the while loop of monitor_website, with the processing times
\* and the number of samples a behaviour is followed for as parameters
TickWith(proc_times, max_samples) ==
    /\ pc = "loop"
    /\ ticks * probe_interval < max_samples
    /\ \E outcome \in Outcomes, processing \in proc_times :
          \E r \in {LoopBody(run, ProbeInput(outcome, processing))} : Advance(r)
    /\ UNCHANGED <<other, outside>>

Tick == TickWith(ProcTimes, MaxSamples)

\* an iteration of a run that is followed until the buffers could have passed
\* MAX_HISTORY_SIZE, none of its iterations overrunning
TickLong == TickWith({0}, MAX_HISTORY_SIZE + 2)

\* the state of a run after an iteration with result r
RunAfter(s, r) ==
    [probe_interval |-> s.probe_interval, cfg |-> s.cfg, errors |-> r.errors,
     effective_latencies |-> r.effective_latencies,
     adjusted_latencies |-> r.adjusted_latencies,
     response_status_codes |-> r.response_status_codes,
     now |-> r.now, health_status |-> r.health_status, saved |-> r.saved,
     historical_data |-> r.historical_data, tick |-> r.tick]

\* iterations during which the probes of the second run may come out differently
DivergeTicks == 2

\* the probe outcomes of the two runs: those that return a response
PairOutcomes == {o \in Outcomes : ~o.raised}

\* one iteration of two runs of monitor_website side by side: the same
\* configuration, their own histories, and their own probe outcomes during the
\* first DivergeTicks iterations, the same outcomes afterwards
TickPair ==
    /\ pc = "loop"
    /\ ticks * probe_interval < MaxSamples
    /\ \E outcome \in PairOutcomes :
          \E outcome2 \in (IF ticks < DivergeTicks THEN PairOutcomes ELSE {outcome}) :
             \E r \in {LoopBody(run, ProbeInput(outcome, 0))},
                r2 \in {LoopBody(other, ProbeInput(outcome2, 0))} :
                /\ Advance(r)
                /\ other' = RunAfter(other, r2)
    /\ UNCHANGED outside

\* ---------------------------------------------------------------- the renderer
\* line 525, height: int = 200
IMAGE_HEIGHT == 200

\* the palette of lines 529-542, by colour index 0..3
Palette == <<"gray", "green", "red", "black">>

\* the centiseconds of a day
DAY == 24 * 60 * 60 * 100

\* datetime.fromisoformat(timestamp).date(), as days since the epoch of the model
Date(timestamp) == timestamp \div DAY

\* the mutant of ColorIndex: green and red change places
ColorIndexSwapped(item) ==
    IF item.healthy = STATUS_HEALTHY THEN 2
    ELSE IF item.healthy = STATUS_UNHEALTHY THEN 1
    ELSE 0

\* lines 553-563: the colour index of a record, 0 unless its "healthy" is there
\* and int() of it is STATUS_HEALTHY (1) or STATUS_UNHEALTHY (2)
ColorIndex(item) ==
    IF item.healthy = STATUS_HEALTHY THEN 1
    ELSE IF item.healthy = STATUS_UNHEALTHY THEN 2
    ELSE 0

\* lines 547-567: the colour the health plot gives each column, 0..width-1. The
\* image starts all 0; the i-th record of reversed(data_sorted), i < width,
\* paints column width - i - 1
PlotColumns(data_sorted, width) ==
    [x \in 0..(width - 1) |->
        LET i == width - x - 1
        IN  IF i < Len(data_sorted)
            THEN Palette[ColorIndex(data_sorted[Len(data_sorted) - i]) + 1]
            ELSE Palette[1]]

\* the mutant of MarkerColumn: the marker is drawn one column further left
MarkerColumnShifted(i, n, width) == i - n + width - 1

\* line 586: x_pos = i - len(data_sorted) + width
MarkerColumn(i, n, width) == i - n + width

\* lines 581-604: the columns that get a marker band (rows 0..19 in colour 3)
\* and a date text, walking data_sorted from its i-th entry (from 0) on.
\* An entry whose timestamp does not parse is skipped by the except clause of
\* line 603 and leaves previous_date as it was
RECURSIVE DateMarkers(_, _, _, _)
DateMarkers(data_sorted, i, previous_date, width) ==
    IF i >= Len(data_sorted) THEN {}
    ELSE IF ~ValidTimestamp(data_sorted[i + 1])
    THEN DateMarkers(data_sorted, i + 1, previous_date, width)
    ELSE LET current_date == Date(data_sorted[i + 1].timestamp)
             x_pos == MarkerColumn(i, Len(data_sorted), width)
         IN  (IF /\ previous_date # NoneVal
                 /\ current_date # previous_date
                 /\ 0 <= x_pos
                 /\ x_pos < width
              THEN {x_pos} ELSE {})
             \cup DateMarkers(data_sorted, i + 1, current_date, width)

\* no image
NoImage == [mode |-> "none", width |-> 0, height |-> 0, columns |-> <<>>, markers |-> {}]

\* lines 611-612, the image of the except clause: Image.new("RGB", (width, height),
\* color="gray")
Placeholder(width, height) ==
    [mode |-> "RGB", width |-> width, height |-> height,
     columns |-> [x \in 0..(width - 1) |-> "gray"], markers |-> {}]

\* the mutant of create_graphical_representation: without the except clause of
\* line 608 a failure leaves the function and no image is returned
create_graphical_representationUnguarded(data_sorted, fails) ==
    IF fails THEN NoImage
    ELSE [mode |-> "P", width |-> RESULTS_COUNT_MINUTES, height |-> IMAGE_HEIGHT,
          columns |-> PlotColumns(data_sorted, RESULTS_COUNT_MINUTES),
          markers |-> DateMarkers(data_sorted, 0, NoneVal, RESULTS_COUNT_MINUTES)]

\* create_graphical_representation, lines 520-617. fails: an Exception is raised
\* somewhere in the try block (the font, the drawing, the PNG encoder)
create_graphical_representation(data_sorted, fails) ==
    IF fails THEN Placeholder(RESULTS_COUNT_MINUTES, IMAGE_HEIGHT)
    ELSE [mode |-> "P", width |-> RESULTS_COUNT_MINUTES, height |-> IMAGE_HEIGHT,
          columns |-> PlotColumns(data_sorted, RESULTS_COUNT_MINUTES),
          markers |-> DateMarkers(data_sorted, 0, NoneVal, RESULTS_COUNT_MINUTES)]

\* render_history_to_png_file, lines 620-646: what it leaves in the output file.
\* An invalid path makes it return before anything is rendered; an error while
\* writing is printed and the file is not written
render_history_to_png_file(data_sorted, output_path, render_fails, write_fails) ==
    IF output_path = "invalid" \/ write_fails THEN NoImage
    ELSE create_graphical_representation(data_sorted, render_fails)

\* ---------------------------------------------------------------- main before the loop
\* nothing exported
NoExport == [written |-> FALSE, data |-> <<>>]

\* CosmosDBTableStorage.load_historical_data, lines 273-288: the entities sorted
\* by timestamp; an entity whose timestamp does not parse makes the sort raise
\* and the load return []
cosmos_load(stored) == IF AllValid(stored) THEN SortedByTimestamp(stored) ELSE <<>>

\* lines 1264 and 1297: the history the constructor of the History Store loads
InitialHistory(storage, stored) == IF storage = "cosmos" THEN cosmos_load(stored) ELSE stored

\* export_data, lines 108-165: what it leaves in the export file. An invalid
\* path makes it print and return; an error while writing is printed
export_data(data, filename, write_fails) ==
    IF filename = "invalid" \/ write_fails THEN NoExport
    ELSE [written |-> TRUE, data |-> data]

\* the mutant of SelectSaver: no fallback, the failure leaves no saver
SelectSaverNoFallback(azure_blob, blob_init_fails) ==
    IF azure_blob THEN (IF blob_init_fails THEN "none" ELSE "azure") ELSE "file"

\* monitor_website, lines 704-722: the saver the loop publishes with.
\* AzureBlobSaver when the connection string and container were given and its
\* constructor did not raise, FileSaver otherwise
SelectSaver(azure_blob, blob_init_fails) ==
    IF azure_blob THEN (IF blob_init_fails THEN "file" ELSE "azure") ELSE "file"

\* what main has come to: exit_code is NoneVal while the process runs
MainResult(exit_code, steps, data, exported, img, saver, failed) ==
    [exit_code |-> exit_code, steps |-> steps, historical_data |-> data,
     exported |-> exported, image |-> img, saver |-> saver, failed |-> failed]

\* main, lines 1257-1384, from the construction of the History Store to the
\* exit of the process or the entry of the loop of monitor_website.
\* args: cosmos_op ("none", "test_store", "print_table"), history_path,
\* export_file, render ("none", "valid", "invalid": what validate_file_path makes
\* of the path), export_format ("none", "json", "csv"), url ("none", "http",
\* "ftp"), test, azure_blob. stored: what the History Store holds. env: the
\* failures of the environment
main(args, storage, interval, stored, env) ==
    LET cosmos == storage = "cosmos"
        initial == InitialHistory(storage, stored)
        trimmed == trim_data(initial)
        Exit(code, steps, data, failed) ==
            MainResult(code, steps, data, NoExport, NoImage, "none", failed)
    IN  \* lines 1261-1272
        IF cosmos /\ env.cosmos_init_fails
        THEN Exit(1, <<>>, <<>>, {"cosmos_init"})
        \* lines 1274-1288
        ELSE IF cosmos /\ args.cosmos_op = "test_store"
        THEN Exit(0, <<"load", "test_store">>, initial, {})
        ELSE IF cosmos /\ args.cosmos_op = "print_table"
        THEN Exit(0, <<"load", "print_raw_entities">>, initial, {})
        \* line 1297: the ValueError of JsonFileStorage.__init__ leaves main
        ELSE IF ~cosmos /\ args.history_path = "invalid"
        THEN Exit(1, <<>>, <<>>, {"history_path"})
        \* lines 1299-1309
        ELSE IF args.export_file # "none"
        THEN IF args.export_format = "none"
             THEN Exit(1, <<"load">>, initial, {"export_format"})
             ELSE MainResult(0, <<"load", "export_data">>, initial,
                             export_data(initial, args.export_file, env.write_fails),
                             NoImage, "none",
                             (IF args.export_file = "invalid" THEN {"export_file"} ELSE {})
                             \cup (IF env.write_fails THEN {"write"} ELSE {}))
        \* lines 1311-1318
        ELSE IF args.cosmos_op = "print_table"
        THEN Exit(0, <<"load", "trim_data", "print">>, trimmed, {})
        \* lines 1320-1334
        ELSE IF args.render # "none"
        THEN MainResult(0, <<"load", "trim_data", "render">>, trimmed, NoExport,
                        render_history_to_png_file(trimmed, args.render,
                                                   env.render_fails, env.write_fails),
                        "none",
                        (IF args.render = "invalid" THEN {"render"} ELSE {})
                        \cup (IF env.write_fails THEN {"write"} ELSE {})
                        \cup (IF env.render_fails /\ args.render # "invalid"
                              THEN {"renderer"} ELSE {}))
        \* lines 1336-1358
        ELSE IF args.url = "ftp"
        THEN Exit(1, <<"load", "trim_data">>, trimmed, {"url"})
        ELSE IF args.url = "http" /\ args.test
        THEN Exit(IF env.test_fails THEN 1 ELSE 0, <<"load", "trim_data", "test_url">>,
                  trimmed, IF env.test_fails THEN {"test_url"} ELSE {})
        ELSE IF args.url = "http" /\ ~(1 <= interval /\ interval <= MaxProbeInterval)
        THEN Exit(1, <<"load", "trim_data">>, trimmed, {"probe_interval"})
        \* lines 1360-1380 and the head of monitor_website
        ELSE IF args.url = "http"
        THEN MainResult(NoneVal, <<"load", "trim_data", "monitor_website">>, trimmed,
                        NoExport, NoImage,
                        SelectSaver(args.azure_blob, env.blob_init_fails),
                        IF args.azure_blob /\ env.blob_init_fails
                        THEN {"blob_init"} ELSE {})
        \* line 1382
        ELSE Exit(0, <<"load", "trim_data", "print_help">>, trimmed, {})

\* the arguments of a plain monitoring run
MonitorArgs ==
    [cosmos_op |-> "none", history_path |-> "valid", export_file |-> "none",
     export_format |-> "none", render |-> "none", url |-> "http", test |-> FALSE,
     azure_blob |-> FALSE]

\* main as the specifications of the loop take it: entered with MonitorArgs, not
\* followed further
NoProc ==
    [args |-> MonitorArgs, exit_code |-> NoneVal, steps |-> <<>>, exported |-> NoExport,
     saver |-> "none", failed |-> {}, initial |-> <<>>]

\* monitor-credits.py, line 529, and monitor-eviction.py, line 215: max_errors
\* (10 in the source)
MAX_ERRORS == 3

\* ---------------------------------------------------------------- monitor-credits.py
\* the mutant of CreditsDecision: services_running is not consulted
CreditsDecisionStateless(services_running, reading, low_threshold, high_threshold) ==
    IF reading < low_threshold THEN "stop"
    ELSE IF reading > high_threshold THEN "start"
    ELSE "none"

\* monitor-credits.py, lines 570-583: what an iteration does on a reading
CreditsDecision(services_running, reading, low_threshold, high_threshold) ==
    IF services_running /\ reading < low_threshold THEN "stop"
    ELSE IF ~services_running /\ reading > high_threshold THEN "start"
    ELSE "none"

\* monitor-credits.py, lines 527-532: the locals before the loop; the thresholds
\* are set by the specification that follows the script
NoCredits ==
    [low_threshold |-> 0, high_threshold |-> 0, services_running |-> TRUE,
     error_count |-> 0, access_token |-> FALSE, reading |-> NoneVal,
     actions |-> <<>>, exit_code |-> NoneVal, recent |-> <<>>]

\* ---------------------------------------------------------------- monitor-eviction.py
\* monitor-eviction.py, line 41: max_retries and backoff_factor, the defaults
\* every call of get_scheduled_events runs with
MAX_RETRIES == 3
BACKOFF_FACTOR == 2

\* monitor-eviction.py, lines 37-38
stopStatuses == {"Scheduled", "Started"}
stopTypes == {"Reboot", "Redeploy", "Freeze", "Preempt", "Terminate"}

\* backoff_factor**attempt (line 62)
RECURSIVE Pow(_, _)
Pow(b, n) == IF n = 0 THEN 1 ELSE b * Pow(b, n - 1)

\* the empty dict get_scheduled_events returns on failure (lines 60 and 65); a
\* document of the endpoint carries its DocumentIncarnation and its Events
EmptyPayload == [DocumentIncarnation |-> NoneVal, Events |-> <<>>]

\* monitor-eviction.py, line 220: `not payload`
NotPayload(payload) == payload = EmptyPayload

\* the mutant of BackoffWait: the wait does not grow with the attempt
BackoffWaitFlat(attempt) == 1

\* monitor-eviction.py, line 62: wait_time of the attempt (0-based) that failed
BackoffWait(attempt) == Pow(BACKOFF_FACTOR, attempt)

\* monitor-eviction.py, lines 41-65: get_scheduled_events from attempt `attempt`
\* (0-based) on. fails[k + 1] says that request k raises a RequestException,
\* document is what a request that succeeds decodes; the result carries the
\* requests made and the sleeps taken, in order
RECURSIVE get_scheduled_events_from(_, _, _, _, _)
get_scheduled_events_from(attempt, fails, document, requests, sleeps) ==
    IF attempt >= MAX_RETRIES
    THEN \* line 65, after the for loop
         [requests |-> requests, sleeps |-> sleeps, payload |-> EmptyPayload]
    ELSE IF ~fails[attempt + 1]
    THEN \* lines 49-55
         [requests |-> requests + 1, sleeps |-> sleeps, payload |-> document]
    ELSE IF attempt = MAX_RETRIES - 1
    THEN \* lines 57-60
         [requests |-> requests + 1, sleeps |-> sleeps, payload |-> EmptyPayload]
    ELSE \* lines 62-64
         get_scheduled_events_from(attempt + 1, fails, document, requests + 1,
                                   Append(sleeps, BackoffWait(attempt)))

get_scheduled_events(fails, document) ==
    get_scheduled_events_from(0, fails, document, 0, <<>>)

\* the mutant of EventMatches: the resources of the event are not consulted
EventMatchesAnyHost(event) ==
    /\ event.EventStatus \in stopStatuses
    /\ event.EventType \in stopTypes
    /\ event.ResourceType = "VirtualMachine"

\* monitor-eviction.py, lines 240-245; on_host is `myComputer in resources`
EventMatches(event) ==
    /\ event.EventStatus \in stopStatuses
    /\ event.EventType \in stopTypes
    /\ event.ResourceType = "VirtualMachine"
    /\ event.on_host

\* monitor-eviction.py, lines 233-249: the index of the event the for loop
\* breaks at, 0 when it runs to its end
FirstMatch(Events) ==
    IF \E i \in 1..Len(Events) : EventMatches(Events[i])
    THEN CHOOSE i \in 1..Len(Events) :
             /\ EventMatches(Events[i])
             /\ \A j \in 1..(i - 1) : ~EventMatches(Events[j])
    ELSE 0

\* monitor-eviction.py, lines 97-111: the hook block of eviction_action.
\* hook_outcome: "invalid" validate_hook_path raises ValueError, "ok" and
\* "nonzero" the hook returns, "timeout" run raises TimeoutExpired, "oserror"
\* run raises OSError; every exception is caught (lines 108-111)
HookBlock(a_hook, hook_outcome) ==
    IF ~a_hook THEN <<>>
    ELSE IF hook_outcome = "invalid"
    THEN <<[cmd |-> "validate_hook_path", arg |-> "hook", ended |-> "ValueError"]>>
    ELSE <<[cmd |-> "validate_hook_path", arg |-> "hook", ended |-> "returned"],
           [cmd |-> "run_hook", arg |-> "hook",
            ended |-> IF hook_outcome \in {"ok", "nonzero"} THEN "returned"
                      ELSE hook_outcome]>>

\* monitor-eviction.py, lines 115-127: the commands of one service. outcome:
\* "systemctl" systemctl stop returns 0, "service" it does not and
\* /usr/sbin/service does, "failed" neither does, "raised" run raises (caught
\* at line 126)
StopService(service, outcome) ==
    IF outcome = "systemctl"
    THEN <<[cmd |-> "systemctl stop", arg |-> service, ended |-> "returned"]>>
    ELSE IF outcome = "raised"
    THEN <<[cmd |-> "systemctl stop", arg |-> service, ended |-> "Exception"]>>
    ELSE <<[cmd |-> "systemctl stop", arg |-> service, ended |-> "nonzero"],
           [cmd |-> "service stop", arg |-> service,
            ended |-> IF outcome = "service" THEN "returned" ELSE "nonzero"]>>

\* the mutant of StopServices: the for loop ends at the first service that
\* did not stop
RECURSIVE StopServicesUntilFailure(_, _, _)
StopServicesUntilFailure(a_services, outcomes, i) ==
    IF i > Len(a_services) THEN <<>>
    ELSE StopService(a_services[i], outcomes[i])
         \o (IF outcomes[i] \in {"failed", "raised"} THEN <<>>
             ELSE StopServicesUntilFailure(a_services, outcomes, i + 1))

\* monitor-eviction.py, lines 113-127: the for loop over a_services, from
\* service i on
RECURSIVE StopServices(_, _, _)
StopServices(a_services, outcomes, i) ==
    IF i > Len(a_services) THEN <<>>
    ELSE StopService(a_services[i], outcomes[i])
         \o StopServices(a_services, outcomes, i + 1)

\* monitor-eviction.py, lines 95-127: the commands eviction_action issues, in order
eviction_action(a_services, a_hook, hook_outcome, outcomes) ==
    HookBlock(a_hook, hook_outcome) \o StopServices(a_services, outcomes, 1)

\* the mutant of TooManyErrors: one more failure is tolerated
TooManyErrorsLate(error_count) == error_count > MAX_ERRORS

\* monitor-eviction.py, line 222: error_count >= max_errors
TooManyErrors(error_count) == error_count >= MAX_ERRORS

\* the last n outcomes of the polls, the latest last
Recent(recent, failed) ==
    LET all == Append(recent, failed)
    IN  IF Len(all) > MAX_ERRORS THEN Tail(all) ELSE all

\* monitor-eviction.py, lines 213-215: the locals before the loop; services and
\* hook are set by the specification that follows the script
NoEviction ==
    [services |-> <<>>, hook |-> FALSE, continueLoop |-> TRUE, error_count |-> 0,
     exit_code |-> NoneVal, recent |-> <<>>,
     fails |-> <<>>, document |-> EmptyPayload, requests |-> 0, sleeps |-> <<>>, payload |-> EmptyPayload,
     matched |-> 0, action_calls |-> 0, action_steps |-> <<>>,
     hook_outcome |-> "none", outcomes |-> <<>>]

\* one iteration of the while loop of monitor-eviction.py, lines 217-252, from
\* the locals e. Inputs: which requests of the poll raise, the document a
\* request that succeeds decodes, how the hook ends, how each service stops
EvictionIteration(e, inp) ==
    LET poll == get_scheduled_events(inp.fails, inp.document)
        polled == [e EXCEPT !.fails = inp.fails, !.document = inp.document,
                            !.requests = poll.requests, !.sleeps = poll.sleeps,
                            !.payload = poll.payload,
                            !.recent = Recent(e.recent, NotPayload(poll.payload))]
        matched == FirstMatch(poll.payload.Events)
    IN  IF NotPayload(poll.payload)
        THEN \* lines 220-228
             [polled EXCEPT !.error_count = e.error_count + 1,
                            !.exit_code = IF TooManyErrors(e.error_count + 1) THEN 1
                                          ELSE NoneVal]
        ELSE IF matched # 0
        THEN \* lines 230-249, and line 254 once the while loop has ended
             [polled EXCEPT !.error_count = 0,
                            !.matched = matched,
                            !.action_calls = e.action_calls + 1,
                            !.action_steps =
                                eviction_action(e.services, e.hook, inp.hook_outcome,
                                                inp.outcomes),
                            !.hook_outcome = inp.hook_outcome,
                            !.outcomes = inp.outcomes,
                            !.continueLoop = FALSE,
                            !.exit_code = 0]
        ELSE \* lines 230-252
             [polled EXCEPT !.error_count = 0]

InitOutside ==
    /\ proc = NoProc
    /\ image = NoImage
    /\ credits = NoCredits
    /\ eviction = NoEviction

\* ---------------------------------------------------------------- specifications
\* the state monitor_website starts in: empty buffers, no health_status yet
InitLoopVars ==
    /\ errors = <<>>
    /\ effective_latencies = <<>>
    /\ adjusted_latencies = <<>>
    /\ response_status_codes = <<>>
    /\ now = StartTime
    /\ ticks = 0
    /\ health_status = NoneVal
    /\ saved = NoSaved
    /\ tick = NoTick

\* main with the local-file History Store, from the load of the history on:
\* every history under the default configuration, the empty one under the second
Init ==
    /\ pc = "main"
    /\ loaded \in Histories
    /\ historical_data = loaded
    /\ trim_in = <<>>
    /\ trim_site = "none"
    /\ probe_interval \in 1..MaxProbeInterval
    /\ cfg \in Configs
    /\ loaded = <<>> \/ cfg.request_timeout = 200
    /\ InitLoopVars
    /\ other = run
    /\ InitOutside

Next == MainTrim \/ Tick

Spec == Init /\ [][Next]_vars

\* a run on an empty history with the default configuration, followed for longer
InitLong ==
    /\ pc = "main"
    /\ loaded = <<>>
    /\ historical_data = loaded
    /\ trim_in = <<>>
    /\ trim_site = "none"
    /\ probe_interval \in 1..MaxProbeInterval
    /\ cfg \in {c \in Configs : c.request_timeout = 200}
    /\ InitLoopVars
    /\ other = run
    /\ InitOutside

NextLong == MainTrim \/ TickLong

SpecLong == InitLong /\ [][NextLong]_vars

\* the same run with iterations that take next to nothing or overrun the interval
NextPace == MainTrim \/ Tick

SpecPace == InitLong /\ [][NextPace]_vars

\* two runs with the same probe_interval and configuration; the second starts
\* from its own trimmed history
InitPair ==
    /\ pc = "main"
    /\ loaded = <<>>
    /\ historical_data = loaded
    /\ trim_in = <<>>
    /\ trim_site = "none"
    /\ probe_interval \in 1..MaxProbeInterval
    /\ cfg \in {c \in Configs : c.request_timeout = 200}
    /\ InitLoopVars
    /\ \E h \in Histories :
          other = [probe_interval |-> probe_interval, cfg |-> cfg, errors |-> <<>>,
                   effective_latencies |-> <<>>, adjusted_latencies |-> <<>>,
                   response_status_codes |-> <<>>, now |-> StartTime,
                   health_status |-> NoneVal, saved |-> NoSaved,
                   historical_data |-> trim_data(h), tick |-> NoTick]
    /\ InitOutside

NextPair == MainTrim \/ TickPair

SpecPair == InitPair /\ [][NextPair]_vars

\* ---------------------------------------------------------------- failing sinks
\* the History Store in use: the local JSON file or the Cosmos DB table
FaultConfigs ==
    {[c EXCEPT !.storage = st] : c \in {d \in Configs : d.request_timeout = 200},
                                st \in {"json", "cosmos"}}

\* a fast 200 or a raised transport error
FaultOutcomes == {o \in Outcomes : (o.duration = 10 /\ o.status_code = 200) \/ o.raised}

\* the sinks that fail together on one iteration: none, the History Store, one
\* saver target, every saver target, all of them
FaultSets ==
    {{}, {"append_metric"}, {"save_json"}, {"save_last_error_json"},
     Sinks \ {"append_metric"}, Sinks}

\* exceptions raised from outside the sinks: an Exception where no handler
\* stands between the statement and the loop's handlers (the statistics; the
\* statements from the rendering to the saves, lines 898-967, of which only the
\* try block of the renderer is guarded), Ctrl-C anywhere, the sys.exit(0) of
\* handle_sigterm
Interrupts ==
    {[at |-> step, exc |-> "Exception"] : step \in {"stats", "render"}}
    \cup {[at |-> step, exc |-> "KeyboardInterrupt"] :
              step \in {"probe", "save_json", "sleep"}}
    \cup {[at |-> "trim_data", exc |-> "SystemExit"]}

\* an iteration some of whose sinks fail
TickFaulty ==
    /\ pc = "loop"
    /\ ticks * probe_interval < MaxSamples
    /\ \E outcome \in FaultOutcomes, failing \in FaultSets :
          \E r \in {LoopBody(run, [ProbeInput(outcome, 0) EXCEPT !.failing = failing])} :
             Advance(r)
    /\ UNCHANGED <<other, outside>>

\* an iteration during which an exception is raised that nothing inside the
\* loop handles
TickRaise ==
    /\ pc = "loop"
    /\ ticks * probe_interval < MaxSamples
    /\ \E outcome \in FaultOutcomes, interrupt \in Interrupts :
          \E r \in {LoopBody(run, [ProbeInput(outcome, 0) EXCEPT !.interrupt = interrupt])} :
             /\ r.tick.raised_at # "none"
             /\ Advance(r)
    /\ UNCHANGED <<other, outside>>

InitFaults ==
    /\ pc = "main"
    /\ loaded = <<>>
    /\ historical_data = loaded
    /\ trim_in = <<>>
    /\ trim_site = "none"
    /\ probe_interval \in 1..MaxProbeInterval
    /\ cfg \in FaultConfigs
    /\ InitLoopVars
    /\ other = run
    /\ InitOutside

NextFaults == MainTrim \/ TickFaulty \/ TickRaise

SpecFaults == InitFaults /\ [][NextFaults]_vars

\* the default configuration with and without --use-session
SessionConfigs ==
    {[c EXCEPT !.use_session = u] : c \in {d \in Configs : d.request_timeout = 200},
                                   u \in BOOLEAN}

\* the same iterations of a monitor that may hold a persistent session
InitSession ==
    /\ pc = "main"
    /\ loaded = <<>>
    /\ historical_data = loaded
    /\ trim_in = <<>>
    /\ trim_site = "none"
    /\ probe_interval \in 1..MaxProbeInterval
    /\ cfg \in SessionConfigs
    /\ InitLoopVars
    /\ other = run
    /\ InitOutside

NextSession == MainTrim \/ TickFaulty \/ TickRaise

SpecSession == InitSession /\ [][NextSession]_vars

\* ---------------------------------------------------------------- the statistics on their own
\* longest window offered to the statistics on their own
MaxWindow == 3

\* a latency of a window: None, 0.1 s or 0.5 s
WindowValues == {NoneVal, 10, 50}

\* lines 827-846 applied to the windows held in the two latency buffers
ComputeStats ==
    /\ pc = "stats"
    /\ pc' = "stats_done"
    /\ tick' = [NoTick EXCEPT
                   !.analysis = [errors |-> errors, eff_latencies |-> effective_latencies,
                                 adj_latencies |-> adjusted_latencies,
                                 status_codes |-> response_status_codes],
                   !.stats = WindowStats([errors |-> errors,
                                          eff_latencies |-> effective_latencies,
                                          adj_latencies |-> adjusted_latencies,
                                          status_codes |-> response_status_codes])]
    /\ UNCHANGED <<loaded, historical_data, trim_in, trim_site, probe_interval, cfg,
                   errors, effective_latencies, adjusted_latencies,
                   response_status_codes, now, ticks, health_status, saved, other,
                   outside>>

\* every pair of latency windows of up to MaxWindow entries
InitStats ==
    /\ pc = "stats"
    /\ loaded = <<>>
    /\ historical_data = loaded
    /\ trim_in = <<>>
    /\ trim_site = "none"
    /\ probe_interval = 1
    /\ cfg \in {c \in Configs : c.request_timeout = 200}
    /\ effective_latencies \in SeqsUpTo(WindowValues, MaxWindow)
    /\ adjusted_latencies \in SeqsUpTo(WindowValues, MaxWindow)
    /\ Len(adjusted_latencies) = Len(effective_latencies)
    /\ errors = [i \in 1..Len(effective_latencies) |-> FALSE]
    /\ response_status_codes = [i \in 1..Len(effective_latencies) |-> 200]
    /\ now = StartTime
    /\ ticks = 0
    /\ health_status = NoneVal
    /\ saved = NoSaved
    /\ tick = NoTick
    /\ other = run
    /\ InitOutside

NextStats == ComputeStats

SpecStats == InitStats /\ [][NextStats]_vars

\* timestamps offered to trim_data: scenario C's 0 s, 30 s, 65 s, the 59.99 s
\* boundary, and MaxLate later ones a minute apart
TrimTimes == {0, 3000, DEDUP_GAP, 6500} \cup {6500 + 6000 * k : k \in 1..MaxLate}

\* records with both health states where timestamps may repeat and be reordered,
\* healthy ones elsewhere
TrimRecords ==
    {[timestamp |-> t, healthy |-> h] : t \in {0, 3000}, h \in {0, 1}}
    \cup {[timestamp |-> t, healthy |-> STATUS_HEALTHY] :
              t \in (TrimTimes \ {0, 3000}) \cup {BadTimestamp}}

\* trim_data on every list of up to MaxLen records
InitTrim ==
    /\ pc = "main"
    /\ loaded \in SeqsUpTo(TrimRecords, MaxLen)
    /\ historical_data = loaded
    /\ trim_in = <<>>
    /\ trim_site = "none"
    /\ probe_interval = 1
    /\ cfg \in {c \in Configs : c.request_timeout = 200}
    /\ InitLoopVars
    /\ other = run
    /\ InitOutside

NextTrim == MainTrim \/ ReTrim

SpecTrim == InitTrim /\ [][NextTrim]_vars

\* ---------------------------------------------------------------- main from its start
\* the failures of the environment main can meet: the constructor of
\* CosmosDBTableStorage or of AzureBlobSaver raising, a file that cannot be
\* written, an Exception inside the renderer, a failing --test request
MainEnvs ==
    [cosmos_init_fails : BOOLEAN, blob_init_fails : BOOLEAN, write_fails : BOOLEAN,
     render_fails : BOOLEAN, test_fails : BOOLEAN]

\* the command lines main is started with
MainArgs ==
    [cosmos_op : {"none", "test_store", "print_table"},
     history_path : {"valid", "invalid"},
     export_file : {"none", "valid", "invalid"},
     export_format : {"none", "json"},
     render : {"none", "valid", "invalid"},
     url : {"none", "http", "ftp"},
     test : BOOLEAN,
     azure_blob : BOOLEAN]

\* main, lines 1257-1384, up to the exit of the process or the entry of the
\* while loop of monitor_website
Main ==
    /\ pc = "start"
    /\ \E env \in MainEnvs :
          \E r \in {main(proc.args, cfg.storage, probe_interval, loaded, env)} :
             /\ proc' = [proc EXCEPT !.exit_code = r.exit_code, !.steps = r.steps,
                                     !.exported = r.exported, !.saver = r.saver,
                                     !.failed = r.failed,
                                     !.initial = InitialHistory(cfg.storage, loaded)]
             /\ historical_data' = r.historical_data
             /\ trim_in' = IF Did(r.steps, "trim_data")
                           THEN InitialHistory(cfg.storage, loaded) ELSE trim_in
             /\ trim_site' = IF Did(r.steps, "trim_data") THEN "main" ELSE trim_site
             /\ image' = r.image
             /\ pc' = IF r.exit_code = NoneVal THEN "loop" ELSE "exited"
    /\ UNCHANGED <<loaded, loopvars, credits, eviction>>

\* an iteration of the loop main entered: a fast 200, the write of the History
\* Store succeeding or failing
TickMain ==
    /\ pc = "loop"
    /\ ticks * probe_interval < MaxSamples
    /\ \E outcome \in {o \in Outcomes : o.duration = 10 /\ o.status_code = 200},
          failing \in {{}, {"append_metric"}} :
          \E r \in {LoopBody(run, [ProbeInput(outcome, 0) EXCEPT !.failing = failing])} :
             Advance(r)
    /\ UNCHANGED <<other, outside>>

\* main started on every command line of MainArgs, either History Store, and
\* probe intervals inside and outside the allowed range
InitMain ==
    /\ pc = "start"
    /\ loaded \in Histories
    /\ historical_data = <<>>
    /\ trim_in = <<>>
    /\ trim_site = "none"
    /\ probe_interval \in 0..(MaxProbeInterval + 1)
    /\ cfg \in FaultConfigs
    /\ InitLoopVars
    /\ other = run
    /\ \E a \in MainArgs : proc = [NoProc EXCEPT !.args = a]
    /\ image = NoImage
    /\ credits = NoCredits
    /\ eviction = NoEviction

NextMain == Main \/ TickMain

SpecMain == InitMain /\ [][NextMain]_vars

\* ---------------------------------------------------------------- the History Store under failing writes
\* an iteration on which the write of the History Store succeeds or fails, the
\* rest of the iteration taking next to nothing or a minute
TickStore ==
    /\ pc = "loop"
    /\ ticks * probe_interval < MaxSamples
    /\ \E outcome \in FaultOutcomes, processing \in ProcTimes,
          failing \in {{}, {"append_metric"}} :
          \E r \in {LoopBody(run, [ProbeInput(outcome, processing)
                                       EXCEPT !.failing = failing])} :
             Advance(r)
    /\ UNCHANGED <<other, outside>>

\* either History Store, from an empty and from a full history
InitStore ==
    /\ pc = "main"
    /\ loaded \in {h \in Histories : Len(h) \in {0, RESULTS_COUNT_MINUTES}}
    /\ historical_data = loaded
    /\ trim_in = <<>>
    /\ trim_site = "none"
    /\ probe_interval \in 1..MaxProbeInterval
    /\ cfg \in FaultConfigs
    /\ InitLoopVars
    /\ other = run
    /\ InitOutside

NextStore == MainTrim \/ TickStore

SpecStore == InitStore /\ [][NextStore]_vars

\* ---------------------------------------------------------------- the rendering of a history
\* longest history file offered to --render-history-input
MaxTimeline == 4

\* records of three days, some a minute apart, both health states; a record
\* with an unparsable timestamp and one whose "healthy" is neither 0 nor 1
RenderRecords ==
    {[timestamp |-> t, healthy |-> h] :
         t \in {0, DAY, 2 * DAY}, h \in {STATUS_UNHEALTHY, STATUS_HEALTHY}}
    \cup {[timestamp |-> DAY + 6000, healthy |-> STATUS_HEALTHY],
          [timestamp |-> BadTimestamp, healthy |-> STATUS_HEALTHY],
          [timestamp |-> 6000, healthy |-> 2]}

\* main with --render-history-input and --render-history-output on every
\* history file of up to MaxTimeline records
InitRender ==
    /\ pc = "start"
    /\ loaded \in SeqsUpTo(RenderRecords, MaxTimeline)
    /\ historical_data = <<>>
    /\ trim_in = <<>>
    /\ trim_site = "none"
    /\ probe_interval = 1
    /\ cfg \in {c \in Configs : c.request_timeout = 200}
    /\ InitLoopVars
    /\ other = run
    /\ proc = [NoProc EXCEPT !.args = [MonitorArgs EXCEPT !.render = "valid",
                                                          !.url = "none"]]
    /\ image = NoImage
    /\ credits = NoCredits
    /\ eviction = NoEviction

NextRender == Main

SpecRender == InitRender /\ [][NextRender]_vars

\* ---------------------------------------------------------------- the loop of monitor-credits.py
\* highest reading of CPU Credits Remaining
MaxCredits == 4

\* stops and starts a behaviour is followed for
MaxActions == 4

\* one iteration of the while loop of monitor-credits.py, lines 534-585, from
\* the locals c. Inputs: the token has outlived token_lifetime, get_access_token
\* returns a token, and what get_cpu_credits returns (NoneVal for None)
CreditsIteration(c, inp) ==
    LET refresh == ~c.access_token \/ inp.expired
        decision == CreditsDecision(c.services_running, inp.reading,
                                    c.low_threshold, c.high_threshold)
    IN  IF (refresh /\ ~inp.token_ok) \/ inp.reading = NoneVal
        THEN \* lines 537-548 and 551-563
             [c EXCEPT !.error_count = c.error_count + 1,
                       !.recent = Recent(c.recent, TRUE),
                       !.access_token = FALSE,
                       !.reading = NoneVal,
                       !.exit_code = IF c.error_count + 1 >= MAX_ERRORS THEN 1
                                     ELSE NoneVal]
        ELSE \* lines 565-583
             [c EXCEPT !.error_count = 0,
                       !.recent = Recent(c.recent, FALSE),
                       !.access_token = TRUE,
                       !.reading = inp.reading,
                       !.services_running =
                           IF decision = "stop" THEN FALSE
                           ELSE IF decision = "start" THEN TRUE
                           ELSE c.services_running,
                       !.actions = IF decision = "none" THEN c.actions
                                   ELSE Append(c.actions, decision)]

CreditsLoop ==
    /\ pc = "credits"
    /\ Len(credits.actions) < MaxActions
    /\ \E expired \in BOOLEAN, token_ok \in BOOLEAN,
          reading \in 0..MaxCredits \cup {NoneVal} :
          credits' = CreditsIteration(credits, [expired |-> expired, token_ok |-> token_ok,
                                                reading |-> reading])
    /\ pc' = IF credits'.exit_code # NoneVal THEN "exited" ELSE pc
    /\ UNCHANGED <<loaded, historical_data, trim_in, trim_site, loopvars, proc, image, eviction>>

\* monitor-credits.py at lines 527-532, services considered running, with a low
\* threshold below and above the high one
InitCredits ==
    /\ pc = "credits"
    /\ loaded = <<>>
    /\ historical_data = <<>>
    /\ trim_in = <<>>
    /\ trim_site = "none"
    /\ probe_interval = 1
    /\ cfg \in {c \in Configs : c.request_timeout = 200}
    /\ InitLoopVars
    /\ other = run
    /\ proc = NoProc
    /\ image = NoImage
    /\ \E low \in 1..3, high \in {2, 3} :
          credits = [NoCredits EXCEPT !.low_threshold = low, !.high_threshold = high]
    /\ eviction = NoEviction

NextCredits == CreditsLoop

SpecCredits == InitCredits /\ [][NextCredits]_vars

\* ---------------------------------------------------------------- the loop of monitor-eviction.py
\* events of a Scheduled Events document: two the condition of lines 240-245
\* accepts, and one failing each of its four conjuncts
EventSet ==
    {[EventStatus |-> "Scheduled", EventType |-> "Preempt",
      ResourceType |-> "VirtualMachine", on_host |-> TRUE],
     [EventStatus |-> "Started", EventType |-> "Terminate",
      ResourceType |-> "VirtualMachine", on_host |-> TRUE],
     [EventStatus |-> "Completed", EventType |-> "Preempt",
      ResourceType |-> "VirtualMachine", on_host |-> TRUE],
     [EventStatus |-> "Scheduled", EventType |-> "Other",
      ResourceType |-> "VirtualMachine", on_host |-> TRUE],
     [EventStatus |-> "Scheduled", EventType |-> "Reboot",
      ResourceType |-> "Other", on_host |-> TRUE],
     [EventStatus |-> "Started", EventType |-> "Freeze",
      ResourceType |-> "VirtualMachine", on_host |-> FALSE]}

\* the documents of the endpoint: no event, one event, and an event followed
\* by one the condition accepts
Documents ==
    {[DocumentIncarnation |-> 1, Events |-> ev] :
         ev \in {<<>>} \cup {<<e>> : e \in EventSet}
                \cup {<<e, f>> : e \in EventSet,
                                 f \in {g \in EventSet : g.EventType = "Terminate"}}}

\* which requests of one poll raise a RequestException: a request is made only
\* after the ones before it failed
Attempts ==
    {fails \in [1..MAX_RETRIES -> BOOLEAN] :
         \A k \in 2..MAX_RETRIES : fails[k] => fails[k - 1]}

HookOutcomes == {"ok", "nonzero", "invalid", "timeout", "oserror"}
ServiceOutcomes == {"systemctl", "service", "failed", "raised"}

\* an iteration; how the hook and the services end is drawn on the iteration
\* that calls eviction_action
EvictionLoop ==
    /\ pc = "eviction"
    /\ \E fails \in Attempts, document \in Documents :
          LET payload == get_scheduled_events(fails, document).payload
              calls == FirstMatch(payload.Events) # 0
          IN  \E hook_outcome \in (IF calls /\ eviction.hook THEN HookOutcomes
                                    ELSE {"none"}),
                 outcomes \in (IF calls
                               THEN [1..Len(eviction.services) -> ServiceOutcomes]
                               ELSE {<<>>}) :
                 eviction' = EvictionIteration(eviction,
                                 [fails |-> fails, document |-> document,
                                  hook_outcome |-> hook_outcome, outcomes |-> outcomes])
    /\ pc' = IF eviction'.exit_code # NoneVal THEN "exited" ELSE pc
    /\ UNCHANGED <<loaded, historical_data, trim_in, trim_site, loopvars, proc, image,
                   credits>>

\* monitor-eviction.py at lines 213-215, with the services and the hook
\* parse_args accepts (at least one of the two, line 163)
InitEviction ==
    /\ pc = "eviction"
    /\ loaded = <<>>
    /\ historical_data = <<>>
    /\ trim_in = <<>>
    /\ trim_site = "none"
    /\ probe_interval = 1
    /\ cfg \in {c \in Configs : c.request_timeout = 200}
    /\ InitLoopVars
    /\ other = run
    /\ proc = NoProc
    /\ image = NoImage
    /\ credits = NoCredits
    /\ \E services \in {<<>>, <<"web">>, <<"web", "db">>}, hook \in BOOLEAN :
          /\ services # <<>> \/ hook
          /\ eviction = [NoEviction EXCEPT !.services = services, !.hook = hook]

NextEviction == EvictionLoop

SpecEviction == InitEviction /\ [][NextEviction]_vars

\* the two pollers, each a process of its own
InitPolls == InitCredits \/ InitEviction

NextPolls == CreditsLoop \/ EvictionLoop

SpecPolls == InitPolls /\ [][NextPolls]_vars

\* ---------------------------------------------------------------- claims on trim_data
Timestamps(data) == [i \in 1..Len(data) |-> data[i].timestamp]

\* consecutive entries are at least 59.99 s apart
SpacedApart(data) ==
    \A i \in 1..Len(data) - 1 : data[i + 1].timestamp - data[i].timestamp >= DEDUP_GAP

\* C1: trim_data is idempotent: trimming the result of a trim of a list with valid
\* timestamps returns that result unchanged.
C1_TrimIdempotent ==
    (trim_site = "again" /\ AllValid(loaded)) => historical_data = trim_in

\* a re-trim happened after a first trim that dropped entries and kept several
C1_Witness ==
    /\ trim_site = "again"
    /\ AllValid(loaded)
    /\ Len(trim_in) >= 2
    /\ Len(trim_in) < Len(loaded)

\* C2: for a list with valid timestamps, consecutive entries of trim_data's result
\* are at least 59.99 s apart and the result has at most RESULTS_COUNT_MINUTES
\* entries.
C2_TrimSpacedAndCapped ==
    (trim_site = "main" /\ AllValid(trim_in)) =>
        /\ SpacedApart(historical_data)
        /\ Len(historical_data) <= RESULTS_COUNT_MINUTES

\* a trim of a dense list: entries exactly 59.99 s apart were both kept and a
\* closer one was dropped
C2_Witness ==
    /\ trim_site = "main"
    /\ AllValid(trim_in)
    /\ Len(historical_data) < Len(trim_in)
    /\ \E i \in 1..Len(historical_data) - 1 :
           historical_data[i + 1].timestamp - historical_data[i].timestamp = DEDUP_GAP

RECURSIVE WalkSinceKept(_, _, _)
\* the walk as the claim C3 describes it: an entry is compared with the most
\* recently kept entry
WalkSinceKept(data_sorted, i, last_kept) ==
    IF i > Len(data_sorted) THEN <<>>
    ELSE LET entry == data_sorted[i]
             keep == last_kept = NoneVal \/ entry.timestamp - last_kept >= DEDUP_GAP
         IN  (IF keep THEN <<entry>> ELSE <<>>)
             \o WalkSinceKept(data_sorted, i + 1, IF keep THEN entry.timestamp ELSE last_kept)

\* C3: trim_data walks the records in ascending timestamp order and keeps a record
\* exactly when it is the first or at least 59.99 s after the most recently kept
\* record (records at 0 s, 30 s, 65 s give the records at 0 s and 65 s).
C3_KeepsSinceLastKept ==
    (trim_site = "main" /\ AllValid(trim_in)) =>
        historical_data = CapTail(WalkSinceKept(SortedByTimestamp(trim_in), 1, NoneVal))

\* the entries that survive trim_data's deduplication walk
Survivors(data) == WalkFrom(SortedByTimestamp(data), 1, NoneVal)

\* C4: when more than RESULTS_COUNT_MINUTES records survive deduplication, the result
\* is exactly the RESULTS_COUNT_MINUTES survivors with the latest timestamps, in
\* ascending order; a list of RESULTS_COUNT_MINUTES + 1 records at least 60 s apart
\* loses only its oldest record.
C4_CapKeepsLatest ==
    (trim_site = "main" /\ AllValid(trim_in) /\ Len(Survivors(trim_in)) > RESULTS_COUNT_MINUTES) =>
        LET kept == Survivors(trim_in)
            out == historical_data
            dropped == {i \in 1..Len(kept) : \A j \in 1..Len(out) : out[j] # kept[i]}
        IN  /\ Len(out) = RESULTS_COUNT_MINUTES
            /\ \A j \in 1..Len(out) : \E i \in 1..Len(kept) : kept[i] = out[j]
            /\ \A j \in 1..Len(out) - 1 : out[j].timestamp < out[j + 1].timestamp
            /\ \A i \in dropped : kept[i].timestamp < out[1].timestamp
            /\ (Len(trim_in) = RESULTS_COUNT_MINUTES + 1 /\ Len(kept) = Len(trim_in)
                  /\ SortedByTimestamp(trim_in) = trim_in)
               => out = Tail(trim_in)

\* a list of RESULTS_COUNT_MINUTES + 1 records a minute apart, given in ascending
\* order, was trimmed
C4_Witness ==
    /\ trim_site = "main"
    /\ AllValid(trim_in)
    /\ Len(trim_in) = RESULTS_COUNT_MINUTES + 1
    /\ SortedByTimestamp(trim_in) = trim_in
    /\ Len(Survivors(trim_in)) = RESULTS_COUNT_MINUTES + 1

\* ---------------------------------------------------------------- claims on the monitor loop
StrictlyIncreasing(data) ==
    \A i \in 1..Len(data) - 1 : data[i].timestamp < data[i + 1].timestamp

\* C5: whatever history with valid timestamps was loaded, at the end of every
\* evaluation tick storage.historical_data is strictly increasing in timestamp,
\* has consecutive entries at least 59.99 s apart and has at most
\* RESULTS_COUNT_MINUTES entries.
C5_TimelineKeptTrimmed ==
    (AllValid(loaded) /\ tick.evaluated) =>
        /\ StrictlyIncreasing(historical_data)
        /\ SpacedApart(historical_data)
        /\ Len(historical_data) <= RESULTS_COUNT_MINUTES

\* an evaluation tick whose record was kept on a full loaded history, the cap
\* dropping the oldest entry
C5_Witness ==
    /\ tick.evaluated
    /\ AllValid(loaded)
    /\ Len(loaded) = RESULTS_COUNT_MINUTES
    /\ Len(historical_data) = RESULTS_COUNT_MINUTES
    /\ historical_data[Len(historical_data)] = tick.metric_record
    /\ historical_data[1] # loaded[1]

\* the five comparisons of the classification rule, written out on the tick's
\* statistics (standard deviations compared by their squares)
C6_Rule ==
    /\ tick.stats.avg_eff.num <= cfg.latency_threshold * tick.stats.avg_eff.den
    /\ tick.stats.avg_adj.num <= cfg.latency_threshold * tick.stats.avg_adj.den
    /\ tick.stats.error_rate.num <= cfg.error_rate_threshold * tick.stats.error_rate.den
    /\ tick.stats.std_dev_eff.num
         <= cfg.deviation_threshold * cfg.deviation_threshold * tick.stats.std_dev_eff.den
    /\ tick.stats.std_dev_adj.num
         <= cfg.deviation_threshold * cfg.deviation_threshold * tick.stats.std_dev_adj.den

\* C6: the health state of an evaluation tick is HEALTHY exactly when both means
\* are <= latency_threshold, error_rate <= error_rate_threshold and both standard
\* deviations are <= deviation_threshold (a statistic equal to its threshold is
\* within it); otherwise it is UNHEALTHY.
C6_HealthyIffWithinThresholds ==
    tick.evaluated =>
        /\ health_status \in {STATUS_HEALTHY, STATUS_UNHEALTHY}
        /\ health_status = STATUS_HEALTHY <=> C6_Rule
        /\ tick.metric_record.healthy = health_status

\* a HEALTHY tick whose error rate and adjusted-latency deviation equal their
\* thresholds
C6_Witness ==
    /\ tick.evaluated
    /\ health_status = STATUS_HEALTHY
    /\ tick.stats.error_rate.num = cfg.error_rate_threshold * tick.stats.error_rate.den
    /\ tick.stats.std_dev_adj.num
         = cfg.deviation_threshold * cfg.deviation_threshold * tick.stats.std_dev_adj.den

\* C7: two runs with the same thresholds whose latest evaluation window holds the
\* same samples have the same health state on that tick, whatever older samples,
\* timelines and earlier health states they have.
C7_SameWindowSameHealth ==
    (tick.evaluated /\ other.tick.evaluated /\ tick.analysis = other.tick.analysis
       /\ cfg = other.cfg)
        => health_status = other.health_status

\* both runs evaluated the same window, with different older samples behind it
\* and different timelines
C7_Witness ==
    /\ tick.evaluated
    /\ other.tick.evaluated
    /\ tick.analysis = other.tick.analysis
    /\ tick.sampled # other.tick.sampled
    /\ historical_data # other.historical_data

\* C8: for every probe_interval, after the cleanup_old_data step of each tick each
\* of the four sample buffers has at most 3 x SAMPLE_SIZE_SECONDS entries.
C8_BuffersCapped ==
    /\ Len(tick.sampled.errors) <= 3 * SAMPLE_SIZE_SECONDS
    /\ Len(tick.sampled.eff_latencies) <= 3 * SAMPLE_SIZE_SECONDS
    /\ Len(tick.sampled.adj_latencies) <= 3 * SAMPLE_SIZE_SECONDS
    /\ Len(tick.sampled.status_codes) <= 3 * SAMPLE_SIZE_SECONDS

\* a run that has taken more than 3 x SAMPLE_SIZE_SECONDS samples in all, its
\* buffers holding more than one window after cleanup
C8_Witness ==
    /\ ticks * probe_interval > 3 * SAMPLE_SIZE_SECONDS
    /\ Len(tick.sampled.errors) = SAMPLE_SIZE_SECONDS + 1
    /\ Len(tick.sampled.status_codes) = SAMPLE_SIZE_SECONDS + 1

\* the n most recent entries of a buffer
MostRecent(data_list, n) == [i \in 1..n |-> data_list[Len(data_list) - n + i]]

EvaluationSteps ==
    {"stats", "classify", "append_metric", "trim_data", "render", "save_json",
     "save_html", "save_png", "save_last_error_json"}

StepsTaken == {tick.steps[i] : i \in 1..Len(tick.steps)}

\* C9: statistics, classification, the HealthRecord append and the publishes
\* happen on a tick only if the buffer length after appending exceeds
\* SAMPLE_SIZE_SECONDS, and the statistics are those of exactly the
\* SAMPLE_SIZE_SECONDS most recent samples of each buffer.
C9_EvaluatesOnlyAboveWindow ==
    /\ (StepsTaken \cap EvaluationSteps # {} \/ tick.evaluated)
          => tick.cur_sample_size > SAMPLE_SIZE_SECONDS
    /\ tick.evaluated =>
          LET window == [errors |-> MostRecent(tick.sampled.errors, SAMPLE_SIZE_SECONDS),
                         eff_latencies |->
                             MostRecent(tick.sampled.eff_latencies, SAMPLE_SIZE_SECONDS),
                         adj_latencies |->
                             MostRecent(tick.sampled.adj_latencies, SAMPLE_SIZE_SECONDS),
                         status_codes |->
                             MostRecent(tick.sampled.status_codes, SAMPLE_SIZE_SECONDS)]
          IN  /\ tick.analysis = window
              /\ tick.stats = WindowStats(window)

\* an evaluation tick whose buffer held one sample more than the window, that
\* oldest sample unlike the oldest of the window
C9_Witness ==
    /\ tick.evaluated
    /\ tick.cur_sample_size = SAMPLE_SIZE_SECONDS + 1
    /\ tick.sampled.eff_latencies[1] # tick.analysis.eff_latencies[1]
    /\ "save_png" \in StepsTaken

\* C10 as stated: on every tick on which the buffer length after the append and
\* cleanup steps is greater than or equal to SAMPLE_SIZE_SECONDS the tick
\* evaluates, classifies and appends a HealthRecord.
C10_EvaluatesAtOrAboveWindow ==
    (ticks > 0 /\ tick.cur_sample_size >= SAMPLE_SIZE_SECONDS) =>
        /\ tick.evaluated
        /\ {"stats", "classify", "append_metric"} \subseteq StepsTaken

\* C10 as amended: on every tick on which the buffer length after the append and
\* cleanup steps is strictly greater than SAMPLE_SIZE_SECONDS the tick evaluates
\* the window statistics, classifies the health state and calls the History
\* Store's append with a new HealthRecord carrying that state.
C10_EvaluatesAboveWindow ==
    (ticks > 0 /\ tick.cur_sample_size > SAMPLE_SIZE_SECONDS) =>
        /\ tick.evaluated
        /\ {"stats", "classify", "append_metric"} \subseteq StepsTaken
        /\ tick.metric_record # NoRecord
        /\ tick.metric_record.healthy = health_status

\* a tick with one sample more than the window that appended its HealthRecord
C10_Witness ==
    /\ ticks > 0
    /\ tick.cur_sample_size = SAMPLE_SIZE_SECONDS + 1
    /\ "append_metric" \in StepsTaken
    /\ trim_in[Len(trim_in)] = tick.metric_record

\* ---------------------------------------------------------------- claims on the order of a tick
\* the steps of an evaluation tick, as the claim lists them
ClaimedOrder(unhealthy) ==
    <<"probe", "extend", "cleanup", "stats", "classify", "append_metric", "trim_data",
      "render", "save_json", "save_html", "save_png">>
    \o (IF unhealthy THEN <<"save_last_error_json">> ELSE <<>>)
    \o <<"prune">>

IsPrefix(a, b) == Len(a) <= Len(b) /\ \A i \in 1..Len(a) : a[i] = b[i]

\* the steps of the latest tick before its sleep
TickBody == SelectSeq(tick.steps, LAMBDA step : step # "sleep")

Count(steps, step) == Cardinality({i \in 1..Len(steps) : steps[i] = step})

\* C11: the steps of an evaluation tick occur in the order probe, append to the
\* buffers, cap, statistics, classify, History Store append, trim the timeline,
\* render from the trimmed timeline, publish json, html, png, last_error (if
\* UNHEALTHY), prune; none is skipped on a tick that no exception ends, and a tick
\* that an exception ends did the steps before it in that order; there is one
\* probe per tick, and the buffers the next tick starts from are the pruned ones.
C11_StepsInOrder ==
    tick.evaluated =>
        /\ tick.raised_at = "none" =>
              /\ TickBody = ClaimedOrder(health_status = STATUS_UNHEALTHY)
              /\ Len(errors) = tick.cur_sample_size - UPDATE_INTERVAL_SECONDS
              /\ \A i \in 1..Len(errors) :
                    errors[i] = tick.sampled.errors[i + UPDATE_INTERVAL_SECONDS]
        /\ tick.raised_at # "none" =>
              \E unhealthy \in BOOLEAN : IsPrefix(TickBody, ClaimedOrder(unhealthy))
        /\ Count(tick.steps, "probe") = 1
        /\ Did(tick.steps, "trim_data") => historical_data = trim_data(trim_in)
        /\ Did(tick.steps, "render") => tick.rendered = historical_data

\* an UNHEALTHY evaluation tick that ran every step and slept, the record it
\* appended being in the timeline it rendered
C11_Witness ==
    /\ tick.evaluated
    /\ tick.raised_at = "none"
    /\ health_status = STATUS_UNHEALTHY
    /\ Len(tick.steps) = 14
    /\ tick.steps[14] = "sleep"
    /\ tick.rendered # <<>>
    /\ tick.rendered[Len(tick.rendered)] = tick.metric_record

\* C12: on an evaluation tick that no exception ends save_json, save_html and
\* save_png are each invoked exactly once and save_last_error_json is invoked if
\* and only if the tick is UNHEALTHY; a HEALTHY tick leaves the last-error target
\* as it was.
C12_PublishesEachOnce ==
    [][(tick'.evaluated /\ tick'.raised_at = "none") =>
          /\ Count(tick'.steps, "save_json") = 1
          /\ Count(tick'.steps, "save_html") = 1
          /\ Count(tick'.steps, "save_png") = 1
          /\ Count(tick'.steps, "save_last_error_json")
               = (IF health_status' = STATUS_UNHEALTHY THEN 1 ELSE 0)
          /\ health_status' = STATUS_HEALTHY => saved'.last_error = saved.last_error]_vars

\* a HEALTHY evaluation tick after an UNHEALTHY one: the last-error target still
\* holds the earlier tick's content, the json target the new one
C12_Witness ==
    /\ tick.evaluated
    /\ tick.raised_at = "none"
    /\ health_status = STATUS_HEALTHY
    /\ saved.last_error # NoRecord
    /\ saved.last_error.healthy = STATUS_UNHEALTHY
    /\ saved.json = tick.metric_record
    /\ saved.last_error # saved.json

\* ---------------------------------------------------------------- claims on the samples
\* C13: a probe answered with status 200 gives a sample with error false and
\* adjusted_latency equal to effective_latency; one answered with another status
\* gives error true and adjusted_latency equal to the configured timeout; one whose
\* request raised gives status null, error true and adjusted_latency equal to the
\* timeout; in every case effective_latency is the measured duration.
C13_SampleOfOutcome ==
    ticks > 0 =>
        /\ tick.sample.effective_latency = tick.measured
        /\ (~tick.probe_raised /\ tick.sample.status_code = 200) =>
              /\ tick.sample.error = FALSE
              /\ tick.sample.adjusted_latency = tick.sample.effective_latency
        /\ (~tick.probe_raised /\ tick.sample.status_code # 200) =>
              /\ tick.sample.status_code # NoneVal
              /\ tick.sample.error = TRUE
              /\ tick.sample.adjusted_latency = cfg.request_timeout
        /\ tick.probe_raised =>
              /\ tick.sample.status_code = NoneVal
              /\ tick.sample.error = TRUE
              /\ tick.sample.adjusted_latency = cfg.request_timeout

\* a raised probe after a 200 and a 500: all three kinds of sample are in the
\* buffers, the failed ones with the timeout as adjusted latency
C13_Witness ==
    /\ tick.probe_raised
    /\ tick.sample.adjusted_latency = cfg.request_timeout
    /\ tick.sample.effective_latency # cfg.request_timeout
    /\ \E i, j \in 1..Len(tick.sampled.status_codes) :
          /\ tick.sampled.status_codes[i] = 200
          /\ tick.sampled.adj_latencies[i] = tick.sampled.eff_latencies[i]
          /\ tick.sampled.status_codes[j] = 500
          /\ tick.sampled.adj_latencies[j] = cfg.request_timeout

\* do the entries at index i of the four buffers describe one sample
SameSample(b, i, request_timeout) ==
    /\ b.errors[i] = (b.status_codes[i] # 200)
    /\ b.errors[i] => b.adj_latencies[i] = request_timeout
    /\ ~b.errors[i] => b.adj_latencies[i] = b.eff_latencies[i]

Buffers == [errors |-> errors, eff_latencies |-> effective_latencies,
            adj_latencies |-> adjusted_latencies, status_codes |-> response_status_codes]

\* is after the list before followed by probe_interval copies of value
Extended(before, after, value) ==
    /\ Len(after) = Len(before) + probe_interval
    /\ \A i \in 1..Len(before) : after[i] = before[i]
    /\ \A i \in Len(before) + 1..Len(after) : after[i] = value

\* C14: every tick appends its one probe outcome exactly probe_interval times to
\* each of the four buffers; between ticks the four buffers have the same length
\* and the entries at one index describe the same sample.
C14_BuffersParallel ==
    [][/\ Extended(errors, tick'.sampled.errors, tick'.sample.error)
       /\ Extended(effective_latencies, tick'.sampled.eff_latencies,
                   tick'.sample.effective_latency)
       /\ Extended(adjusted_latencies, tick'.sampled.adj_latencies,
                   tick'.sample.adjusted_latency)
       /\ Extended(response_status_codes, tick'.sampled.status_codes,
                   tick'.sample.status_code)
       /\ Len(effective_latencies') = Len(errors')
       /\ Len(adjusted_latencies') = Len(errors')
       /\ Len(response_status_codes') = Len(errors')
       /\ \A i \in 1..Len(errors') : SameSample(Buffers', i, cfg.request_timeout)
      ]_<<ticks>>

\* between two ticks with probe_interval above 1: the buffers hold copies of one
\* outcome next to copies of another, all four of one length
C14_Witness ==
    /\ probe_interval > 1
    /\ Len(errors) > probe_interval
    /\ Len(effective_latencies) = Len(errors)
    /\ Len(adjusted_latencies) = Len(errors)
    /\ Len(response_status_codes) = Len(errors)
    /\ errors[Len(errors)] = errors[Len(errors) - probe_interval + 1]
    /\ errors[Len(errors)] # errors[Len(errors) - probe_interval]
    /\ response_status_codes[Len(errors)] # response_status_codes[Len(errors) - probe_interval]

\* ---------------------------------------------------------------- claims on the statistics
ErrorsInWindow == Cardinality({i \in 1..Len(tick.analysis.errors) : tick.analysis.errors[i]})

\* C15: on every evaluation tick error_rate is 100 x (error samples in the window)
\* / (window size): 100 when every sample is an error, 0 when none is, always
\* within 0..100; an error rate above the threshold makes the tick UNHEALTHY.
C15_ErrorRate ==
    tick.evaluated =>
        /\ Len(tick.analysis.errors) = SAMPLE_SIZE_SECONDS
        /\ tick.stats.error_rate.den > 0
        /\ tick.stats.error_rate.num * SAMPLE_SIZE_SECONDS
             = 100 * ErrorsInWindow * tick.stats.error_rate.den
        /\ ErrorsInWindow = SAMPLE_SIZE_SECONDS
             => tick.stats.error_rate.num = 100 * tick.stats.error_rate.den
        /\ ErrorsInWindow = 0 => tick.stats.error_rate.num = 0
        /\ 0 <= tick.stats.error_rate.num
        /\ tick.stats.error_rate.num <= 100 * tick.stats.error_rate.den
        /\ tick.stats.error_rate.num > cfg.error_rate_threshold * tick.stats.error_rate.den
             => health_status = STATUS_UNHEALTHY

\* one error in the window: a rate between 0 and 100 that is above the threshold,
\* and the tick is UNHEALTHY
C15_Witness ==
    /\ tick.evaluated
    /\ ErrorsInWindow = 1
    /\ tick.stats.error_rate.num > cfg.error_rate_threshold * tick.stats.error_rate.den
    /\ tick.stats.error_rate.num < 100 * tick.stats.error_rate.den
    /\ health_status = STATUS_UNHEALTHY

\* the population variance sum((x - mean)^2) / n = (n * sum(x^2) - sum(x)^2) / n^2
PopulationVariance(xs) ==
    LET n == Len(xs)
        sx == SumSeq(xs)
        sxx == SumSeq([i \in 1..n |-> xs[i] * xs[i]])
    IN  Rat(n * sxx - sx * sx, n * n)

RatEq(a, b) == a.num * b.den = b.num * a.den

\* C16: the two standard deviations of an evaluation tick are the population
\* standard deviations (divisor: the number of samples of the window) of the
\* window's effective and adjusted latencies.
C16_PopulationStdev ==
    tick.evaluated =>
        /\ RatEq(tick.stats.std_dev_eff, PopulationVariance(tick.analysis.eff_latencies))
        /\ RatEq(tick.stats.std_dev_adj, PopulationVariance(tick.analysis.adj_latencies))

\* C17: the standard deviation of a window with fewer than two valid samples is
\* exactly 0, never undefined, for the effective and for the adjusted latencies.
C17_StdevOfShortWindow ==
    pc = "stats_done" =>
        /\ Len(NotNone(tick.analysis.eff_latencies)) < 2
             => tick.stats.std_dev_eff.num = 0 /\ tick.stats.std_dev_eff.den > 0
        /\ Len(NotNone(tick.analysis.adj_latencies)) < 2
             => tick.stats.std_dev_adj.num = 0 /\ tick.stats.std_dev_adj.den > 0

\* a window of three entries of which one effective latency is valid and no
\* adjusted latency is: both deviations are 0, and the mean is the one sample
C17_Witness ==
    /\ pc = "stats_done"
    /\ Len(tick.analysis.eff_latencies) = 3
    /\ Len(NotNone(tick.analysis.eff_latencies)) = 1
    /\ Len(NotNone(tick.analysis.adj_latencies)) = 0
    /\ tick.stats.std_dev_eff = Rat(0, 1)
    /\ tick.stats.std_dev_adj = Rat(0, 1)
    /\ tick.stats.avg_eff.num > 0

\* ---------------------------------------------------------------- claims on failures
\* the last probe_interval entries of the sampled buffers are a failed sample
FailedSampleRecorded ==
    /\ Len(tick.sampled.errors) >= probe_interval
    /\ \A i \in Len(tick.sampled.errors) - probe_interval + 1..Len(tick.sampled.errors) :
          /\ tick.sampled.errors[i] = TRUE
          /\ tick.sampled.status_codes[i] = NoneVal
          /\ tick.sampled.adj_latencies[i] = cfg.request_timeout

\* C18: an exception raised by the HTTP request never ends the loop: the tick
\* records a failed sample and goes on with the aggregation, and the loop stays
\* ready for the next probe, however many probes in a row have failed.
C18_ProbeFailureAbsorbed ==
    tick.probe_raised =>
        /\ pc = "loop"
        /\ tick.raised_at = "none"
        /\ IsPrefix(<<"probe", "extend", "cleanup">>, tick.steps)
        /\ "probe" \in tick.logged
        /\ FailedSampleRecorded
        /\ tick.cur_sample_size > SAMPLE_SIZE_SECONDS => tick.evaluated

\* every probe of the run so far has failed, the run has gone on to its last
\* tick and has evaluated a window of failures only
C18_Witness ==
    /\ tick.probe_raised
    /\ pc = "loop"
    /\ ticks * probe_interval >= MaxSamples
    /\ tick.evaluated
    /\ health_status = STATUS_UNHEALTHY
    /\ \A i \in 1..Len(tick.sampled.errors) : tick.sampled.status_codes[i] = NoneVal

\* C19: a failing History Store append or saver operation never ends the loop: it
\* is logged, the remaining steps of the tick run, the health state is the one of
\* the rule, and later ticks probe, evaluate and classify.
C19_SinkFailureAbsorbed ==
    (tick.evaluated /\ tick.failing # {}) =>
        /\ pc = "loop"
        /\ tick.raised_at = "none"
        /\ TickBody = ClaimedOrder(health_status = STATUS_UNHEALTHY)
        /\ tick.logged \ {"probe"} = {op \in tick.failing : Did(tick.steps, op)}
        /\ tick.stats = WindowStats(tick.analysis)
        /\ health_status = STATUS_HEALTHY <=> C6_Rule
        /\ tick.metric_record.healthy = health_status

\* a later evaluation tick of a run none of whose writes has succeeded: every
\* sink failed again, nothing has been published and the Cosmos-backed timeline
\* is empty, yet the tick classified its window HEALTHY
C19_Witness ==
    /\ tick.evaluated
    /\ tick.failing = Sinks
    /\ pc = "loop"
    /\ ticks * probe_interval >= 2 * SAMPLE_SIZE_SECONDS
    /\ saved = NoSaved
    /\ cfg.storage = "cosmos"
    /\ historical_data = <<>>
    /\ health_status = STATUS_HEALTHY
    /\ Did(tick.steps, "prune")

\* C20: an exception raised during the evaluation of a tick that nothing inside
\* the loop handles ends the loop: the session is closed, an exception leaves
\* monitor_website (the same one for an Exception), and no further tick runs.
C20_UnhandledExceptionEndsLoop ==
    [][/\ tick'.raised_at # "none" =>
             /\ pc' = "stopped"
             /\ tick'.session_closed
             /\ tick'.propagated # "none"
             /\ (tick'.raised_at \in {"stats", "render"} => tick'.propagated = "Exception")
       /\ pc # "stopped"]_vars

\* the loop stopped by an Exception raised while rendering on a tick that had
\* appended its record: the saves and the prune did not run
C20_Witness ==
    /\ pc = "stopped"
    /\ tick.evaluated
    /\ tick.raised_at = "render"
    /\ tick.propagated = "Exception"
    /\ tick.session_closed
    /\ Did(tick.steps, "append_metric")
    /\ ~Did(tick.steps, "save_json")
    /\ ~Did(tick.steps, "prune")

\* ---------------------------------------------------------------- claims on main and the renderer
\* C21: a failing constructor of the cloud History Store ends the process with
\* a non-zero exit code before any tick; a failing constructor of the cloud
\* publisher leaves the monitor with the local-file saver and the loop starts.
C21_BackendConstructionFailures ==
    /\ "cosmos_init" \in proc.failed =>
          /\ pc = "exited"
          /\ proc.exit_code \notin {0, NoneVal}
          /\ proc.steps = <<>>
          /\ ticks = 0
    /\ "blob_init" \in proc.failed =>
          /\ pc = "loop"
          /\ proc.exit_code = NoneVal
          /\ Did(proc.steps, "monitor_website")
          /\ proc.saver = "file"

\* the loop running and publishing with the local-file saver after the
\* constructor of AzureBlobSaver raised
C21_Witness ==
    /\ pc = "loop"
    /\ proc.args.azure_blob
    /\ "blob_init" \in proc.failed
    /\ proc.saver = "file"
    /\ tick.evaluated
    /\ saved.json = tick.metric_record

ColourOf(item) ==
    IF item.healthy = 1 THEN "green" ELSE IF item.healthy = 0 THEN "red" ELSE "gray"

DateChanges(data) ==
    {i \in 1..(Len(data) - 1) : Date(data[i + 1].timestamp) # Date(data[i].timestamp)}

\* C24: on a timeline of n records whose timestamps parse, the date markers
\* stand at column i - n + width for exactly the indices i >= 1 whose calendar
\* date differs from that of entry i - 1.
C24_DateMarkers ==
    (pc = "exited" /\ image.mode = "P" /\ AllValid(historical_data)) =>
        image.markers = {i - Len(historical_data) + image.width :
                             i \in DateChanges(historical_data)}

\* a full timeline over more than one day with two records of the same day: a
\* marker where the date changes, none between the two
C24_Witness ==
    /\ pc = "exited"
    /\ image.mode = "P"
    /\ AllValid(historical_data)
    /\ Len(historical_data) = RESULTS_COUNT_MINUTES
    /\ image.markers # {}
    /\ Cardinality(image.markers) < Len(historical_data) - 1

\* ---------------------------------------------------------------- claims on the end of a tick and of the loop
\* C25: an iteration issues one probe; it ends with a sleep up to start_time +
\* probe_interval when that lies ahead, and without a sleep when the iteration
\* took longer, the next iteration starting at once.
C25_SleepsRemainder ==
    [][ticks' = ticks + 1 =>
          LET remainder == probe_interval * 100 - tick'.elapsed
          IN  /\ Count(tick'.steps, "probe") = 1
              /\ remainder > 0 =>
                    /\ Did(tick'.steps, "sleep")
                    /\ now' = now + probe_interval * 100
              /\ remainder <= 0 =>
                    /\ ~Did(tick'.steps, "sleep")
                    /\ now' = now + tick'.elapsed]_vars

\* an evaluating iteration that overran its interval and did not sleep
C25_Witness ==
    /\ pc = "loop"
    /\ tick.evaluated
    /\ tick.elapsed > probe_interval * 100
    /\ ~Did(tick.steps, "sleep")
    /\ now = StartTime + tick.elapsed + (ticks - 1) * probe_interval * 100

\* C26: when Ctrl-C or SIGTERM stops the loop, an iteration that appended its
\* record has also trimmed the timeline and published every artifact.
C26_StopsOnlyBetweenTicks ==
    (pc = "stopped" /\ tick.propagated = "SystemExit"
        /\ Did(tick.steps, "append_metric")) =>
        /\ Did(tick.steps, "trim_data")
        /\ Did(tick.steps, "save_json")
        /\ Did(tick.steps, "save_html")
        /\ Did(tick.steps, "save_png")

\* C27: the session monitor_website created is closed once when the loop ends,
\* however it ends, and not before; no iteration follows.
C27_SessionClosedOnce ==
    [][/\ pc # "stopped"
       /\ tick.session_closes = 0
       /\ pc' = "stopped" => tick'.session_closes = (IF cfg.use_session THEN 1 ELSE 0)
       /\ pc' # "stopped" => tick'.session_closes = 0]_vars

\* the session closed after SIGTERM or Ctrl-C ended the loop
C27_Witness ==
    /\ pc = "stopped"
    /\ cfg.use_session
    /\ tick.propagated = "SystemExit"
    /\ tick.session_closes = 1
    /\ ticks > 1

\* the arguments main rejects or cannot use
ValidationFailures ==
    {"export_format", "export_file", "render", "url", "probe_interval", "history_path"}

\* C28: the process exits with 0 after a one-shot operation that succeeded and
\* with a non-zero code after a configuration validation failure or a failed
\* construction of the History Store.
C28_ExitCodes ==
    pc = "exited" =>
        /\ proc.failed \cap (ValidationFailures \cup {"cosmos_init"}) # {} =>
              proc.exit_code # 0
        /\ proc.exported.written => proc.exit_code = 0

\* C29: with the local-file History Store the loaded history is compacted by
\* trim_data before it is exported, rendered or extended by the loop, and the
\* record an iteration appends is the last of the history file.
C29_CompactedOnLoad ==
    cfg.storage = "json" =>
        /\ proc.exported.written => proc.exported.data = trim_data(loaded)
        /\ Did(proc.steps, "render") \/ Did(proc.steps, "monitor_website") =>
              proc.steps[2] = "trim_data"
        /\ (tick.metric_record # NoRecord /\ "append_metric" \notin tick.failing) =>
              /\ saved.history # <<>>
              /\ saved.history[Len(saved.history)] = tick.metric_record

\* ---------------------------------------------------------------- claims on monitor-credits.py
\* C30: monitor-credits.py stops the services only on a reading below the low
\* threshold while it holds them running and starts them only on a reading
\* above the high threshold while it holds them stopped; stops and starts
\* alternate, a stop first; an iteration without a reading does neither.
C30_StopStartAlternate ==
    [][LET a == credits.actions
           b == credits'.actions
           r == credits'.reading
       IN  /\ b = a \/ (Len(b) = Len(a) + 1 /\ SubSeq(b, 1, Len(a)) = a)
           /\ (b # a /\ b[Len(b)] = "stop") =>
                 /\ credits.services_running
                 /\ ~credits'.services_running
                 /\ r # NoneVal
                 /\ r < credits.low_threshold
           /\ (b # a /\ b[Len(b)] = "start") =>
                 /\ ~credits.services_running
                 /\ credits'.services_running
                 /\ r # NoneVal
                 /\ r > credits.high_threshold
           /\ r = NoneVal => b = a
           /\ \A i \in 1..Len(b) : b[i] = (IF i % 2 = 1 THEN "stop" ELSE "start")]_vars

\* the services stopped, started and stopped again, and then a failed reading
\* that left them stopped
C30_Witness ==
    /\ credits.actions = <<"stop", "start", "stop">>
    /\ ~credits.services_running
    /\ credits.error_count > 0
    /\ credits.reading = NoneVal

\* ---------------------------------------------------------------- claims on monitor-eviction.py
\* the positions of the commands of eviction_action that stop a service
StopAttempts(steps, service) ==
    {i \in 1..Len(steps) : steps[i].cmd = "systemctl stop" /\ steps[i].arg = service}

\* C31: when an eviction is handled, the hook (when one is configured) has
\* returned, failed its validation or ended in an exception before the first
\* command that stops a service, and every listed service gets its stop attempt,
\* in the order listed, however the hook and the services before it ended.
C31_HookThenEveryService ==
    eviction.action_calls > 0 =>
        LET steps == eviction.action_steps
            hook_steps == {i \in 1..Len(steps) : steps[i].arg = "hook"}
            stop_steps == {i \in 1..Len(steps) : steps[i].arg # "hook"}
        IN  /\ (hook_steps # {}) = eviction.hook
            /\ \A i \in hook_steps : \A j \in stop_steps : i < j
            /\ eviction.hook =>
                   /\ steps[1].cmd = "validate_hook_path"
                   /\ \A i \in hook_steps :
                          steps[i].ended \in {"returned", "ValueError", "timeout", "oserror"}
                   /\ (\E i \in hook_steps : steps[i].cmd = "run_hook")
                          = (steps[1].ended = "returned")
            /\ \A k \in 1..Len(eviction.services) :
                   /\ Cardinality(StopAttempts(steps, eviction.services[k])) = 1
                   /\ \A l \in 1..(k - 1) :
                          \A i \in StopAttempts(steps, eviction.services[l]) :
                              \A j \in StopAttempts(steps, eviction.services[k]) : i < j

\* the hook timed out and the first service could not be stopped; the second
\* service got its stop command all the same
C31_Witness ==
    /\ eviction.action_calls = 1
    /\ eviction.hook
    /\ eviction.hook_outcome = "timeout"
    /\ eviction.services = <<"web", "db">>
    /\ eviction.outcomes[1] = "raised"
    /\ StopAttempts(eviction.action_steps, "db") # {}

\* C37: every poll starts with eviction_action not yet called; a poll calls it
\* exactly when its payload holds an event with a status of Scheduled or
\* Started, a type among Reboot, Redeploy, Freeze, Preempt and Terminate, the
\* resource type VirtualMachine and this host among its resources, and the loop
\* has ended once it returned.
C37_ActionAtMostOnce ==
    [][/\ eviction.action_calls = 0
       /\ eviction.continueLoop
       /\ eviction'.action_calls =
              (IF \E i \in 1..Len(eviction'.payload.Events) :
                      LET event == eviction'.payload.Events[i]
                      IN  /\ event.EventStatus \in {"Scheduled", "Started"}
                          /\ event.EventType \in
                                 {"Reboot", "Redeploy", "Freeze", "Preempt", "Terminate"}
                          /\ event.ResourceType = "VirtualMachine"
                          /\ event.on_host
               THEN 1 ELSE 0)
       /\ eviction'.action_calls = 1 =>
              /\ ~eviction'.continueLoop
              /\ eviction'.exit_code = 0
              /\ pc' = "exited"
       /\ eviction'.action_calls = 0 =>
              /\ eviction'.continueLoop
              /\ eviction'.action_steps = <<>>]_eviction

\* after a failed poll, a poll whose first event is for another host and whose
\* second event matches called eviction_action
C37_Witness ==
    /\ eviction.action_calls = 1
    /\ eviction.matched = 2
    /\ ~eviction.payload.Events[1].on_host
    /\ eviction.recent = <<TRUE, FALSE>>
    /\ pc = "exited"

\* C38: a poll makes at most max_retries (3) requests, one more than the
\* requests that failed before the first success; it sleeps 1 s after the first
\* failure and 2 s after the second and not after the third; it returns the
\* document of the first request that succeeded, and the empty dict when all
\* three failed.
C38_BoundedRetries ==
    eviction.recent # <<>> =>
        LET failed == Cardinality({k \in 1..3 : \A j \in 1..k : eviction.fails[j]})
        IN  /\ eviction.requests \in 1..3
            /\ eviction.requests = (IF failed = 3 THEN 3 ELSE failed + 1)
            /\ eviction.sleeps = SubSeq(<<1, 2>>, 1, eviction.requests - 1)
            /\ eviction.payload = (IF failed = 3 THEN EmptyPayload ELSE eviction.document)

\* the third request failed too: two sleeps, 1 s and 2 s, and the empty dict
C38_Witness ==
    /\ eviction.recent # <<>>
    /\ \A k \in 1..3 : eviction.fails[k]
    /\ eviction.requests = 3
    /\ eviction.sleeps = <<1, 2>>
    /\ eviction.payload = EmptyPayload

\* the polls listed in recent all failed, and there are MAX_ERRORS of them
AllFailed(recent) ==
    /\ Len(recent) = MAX_ERRORS
    /\ \A i \in 1..Len(recent) : recent[i]

\* the number of failed polls recent ends with
RECURSIVE FailedInARow(_)
FailedInARow(recent) ==
    IF recent = <<>> \/ ~recent[Len(recent)] THEN 0
    ELSE 1 + FailedInARow(SubSeq(recent, 1, Len(recent) - 1))

\* C36: monitor-eviction.py and monitor-credits.py have exited with code 1
\* exactly when their last max_errors polls failed; error_count is the number
\* of failed polls since the last successful one, 0 right after a successful
\* poll; in monitor-credits.py a failure to get a token and a failed metric
\* read count alike, and the poll that reset the counter read the metric.
C36_ExitAfterConsecutiveFailures ==
    /\ (eviction.exit_code = 1) = AllFailed(eviction.recent)
    /\ (credits.exit_code = 1) = AllFailed(credits.recent)
    /\ eviction.error_count = FailedInARow(eviction.recent)
    /\ credits.error_count = FailedInARow(credits.recent)
    /\ (credits.recent # <<>> /\ credits.error_count = 0) => credits.reading # NoneVal
    /\ credits.error_count > 0 => credits.reading = NoneVal /\ ~credits.access_token

\* monitor-credits.py stopped the services on a successful poll, and then
\* MAX_ERRORS polls in a row failed
C36_Witness ==
    /\ credits.exit_code = 1
    /\ credits.actions = <<"stop">>
    /\ credits.error_count = MAX_ERRORS
    /\ pc = "exited"

\* ---------------------------------------------------------------- claims on the buffer lengths
BuffersAfter ==
    [errors |-> errors', eff_latencies |-> effective_latencies',
     adj_latencies |-> adjusted_latencies', status_codes |-> response_status_codes']

BufferFields == {"errors", "eff_latencies", "adj_latencies", "status_codes"}

\* C32: on every tick each buffer, right after the append, holds at most
\* SAMPLE_SIZE_SECONDS + probe_interval samples, so cleanup_old_data with its
\* cap of 3 x SAMPLE_SIZE_SECONDS removes nothing, and at the end of the tick
\* it holds at most SAMPLE_SIZE_SECONDS samples.
C32_WindowBoundsBuffers ==
    [][ticks' = ticks + 1 =>
           \A b \in BufferFields :
               /\ Len(Buffers[b]) + probe_interval <= SAMPLE_SIZE_SECONDS + probe_interval
               /\ Len(Buffers[b]) + probe_interval < 3 * SAMPLE_SIZE_SECONDS
               /\ Len(tick'.sampled[b]) = Len(Buffers[b]) + probe_interval
               /\ tick'.cur_sample_size = Len(Buffers[b]) + probe_interval
               /\ Len(BuffersAfter[b]) <= SAMPLE_SIZE_SECONDS]_vars

\* after an evaluation, a tick that ends with exactly SAMPLE_SIZE_SECONDS
\* samples in every buffer and does not evaluate
C32_Witness ==
    /\ health_status # NoneVal
    /\ ~tick.evaluated
    /\ \A b \in BufferFields : Len(Buffers[b]) = SAMPLE_SIZE_SECONDS
    /\ tick.cur_sample_size = SAMPLE_SIZE_SECONDS

\* C33: an evaluation prunes exactly UPDATE_INTERVAL_SECONDS samples from every
\* buffer, and from the first evaluation on the number of ticks from one
\* evaluation to the next is UPDATE_INTERVAL_SECONDS / probe_interval rounded
\* down or up (UPDATE_INTERVAL_SECONDS ticks at probe_interval 1, one tick at
\* probe_interval UPDATE_INTERVAL_SECONDS).
C33_EvaluationCadence ==
    [][(ticks' = ticks + 1 /\ tick'.evaluated) =>
           /\ \A b \in BufferFields :
                  Len(BuffersAfter[b]) = tick'.cur_sample_size - UPDATE_INTERVAL_SECONDS
           /\ tick.evaluated \/ tick.evaluated_before =>
                  /\ tick'.gap >= UPDATE_INTERVAL_SECONDS \div probe_interval
                  /\ tick'.gap <= (UPDATE_INTERVAL_SECONDS + probe_interval - 1)
                                       \div probe_interval
                  /\ probe_interval = 1 => tick'.gap = UPDATE_INTERVAL_SECONDS
                  /\ probe_interval = UPDATE_INTERVAL_SECONDS => tick'.gap = 1]_vars

\* probe_interval 2 does not divide UPDATE_INTERVAL_SECONDS evenly: an
\* evaluation two ticks after the one before it, which itself came one tick
\* after its predecessor
C33_Witness ==
    /\ probe_interval = 2
    /\ tick.evaluated
    /\ tick.gap = 2
    /\ ticks >= 6

\* ---------------------------------------------------------------- claims on the History Store
\* C34: with the local-file store, an append whose write succeeds leaves in the
\* file the whole in-memory timeline of that moment: the timeline the tick
\* started with, the records whose own write failed among them, followed by
\* the new record; when that timeline was a trimmed one the file holds at
\* most RESULTS_COUNT_MINUTES + 1 records.
C34_FileHoldsWholeTimeline ==
    [][(/\ ticks' = ticks + 1
        /\ cfg.storage = "json"
        /\ Did(tick'.steps, "append_metric")
        /\ "append_metric" \notin tick'.failing) =>
           /\ saved'.history = Append(historical_data, tick'.metric_record)
           /\ historical_data = trim_data(historical_data) =>
                  Len(saved'.history) <= RESULTS_COUNT_MINUTES + 1]_vars

\* a write that succeeded after one that failed: the file holds
\* RESULTS_COUNT_MINUTES + 1 records, the record of the failed write before
\* the newest
C34_Witness ==
    /\ cfg.storage = "json"
    /\ Did(tick.steps, "append_metric")
    /\ "append_metric" \notin tick.failing
    /\ tick.lagging > 0
    /\ Len(saved.history) = RESULTS_COUNT_MINUTES + 1
    /\ saved.history[Len(saved.history)] = tick.metric_record

\* C35: with the cloud table store, an append whose create_entity fails leaves
\* the in-memory timeline as it was: the timeline trimmed and rendered on that
\* tick is the one the tick started with and does not hold the tick's own
\* record; an append that succeeds adds the record.
C35_FailedCosmosAppendAddsNothing ==
    [][(/\ ticks' = ticks + 1
        /\ cfg.storage = "cosmos"
        /\ Did(tick'.steps, "trim_data")) =>
           IF "append_metric" \in tick'.failing
           THEN /\ trim_in' = historical_data
                /\ historical_data' = trim_data(historical_data)
                /\ Did(tick'.steps, "render") =>
                       /\ tick'.rendered = historical_data'
                       /\ \A i \in 1..Len(tick'.rendered) :
                              tick'.rendered[i] # tick'.metric_record
           ELSE trim_in' = Append(historical_data, tick'.metric_record)]_vars

\* create_entity failed on a tick that started with a full timeline: the
\* rendered timeline is that one, the record of the tick is in none of them
C35_Witness ==
    /\ cfg.storage = "cosmos"
    /\ "append_metric" \in tick.failing
    /\ Did(tick.steps, "save_png")
    /\ tick.metric_record # NoRecord
    /\ Len(tick.rendered) = RESULTS_COUNT_MINUTES
    /\ tick.rendered = historical_data
    /\ saved.png = tick.rendered
    /\ \A i \in 1..Len(historical_data) : historical_data[i] # tick.metric_record

====
